---- MODULE Spec2Model ----
(***************************************************************************)
(* infra-check: the three Scan operations (Terraform, Ansible, Puppet) as  *)
(* one state machine.  A scan walks a directory tree; every invocation of  *)
(* the filepath.Walk callback is one action.  Text (paths, attribute       *)
(* names, values) is a sequence of one-character strings, so that          *)
(* strings.ToLower, strings.Contains and filepath.Ext are computed.        *)
(***************************************************************************)
EXTENDS Integers, Sequences, FiniteSets, TLC

VARIABLES dialect, tree, idx, findings, err, pc, run, prev, exit, output

vars == <<dialect, tree, idx, findings, err, pc, run, prev, exit, output>>

(***************************************************************************)
(* Bounds of the model.                                                    *)
(***************************************************************************)
\* The number of entries the walk reports (the root included).
MaxEntries == 3

\* The number of findings handed to an exporter.
MaxFindings == 2

(***************************************************************************)
(* Strings.                                                                *)
(***************************************************************************)
UpperChars == <<"A", "B", "C", "D", "E", "F", "G", "H", "I", "J", "K", "L", "M", "N", "O", "P", "Q", "R", "S", "T", "U", "V", "W", "X", "Y", "Z">>

LowerChars == <<"a", "b", "c", "d", "e", "f", "g", "h", "i", "j", "k", "l", "m", "n", "o", "p", "q", "r", "s", "t", "u", "v", "w", "x", "y", "z">>

\* The lower-case letter of every upper-case letter.
LowerTable ==
    ("A" :> "a") @@ ("B" :> "b") @@ ("C" :> "c") @@ ("D" :> "d") @@ ("E" :> "e") @@
    ("F" :> "f") @@ ("G" :> "g") @@ ("H" :> "h") @@ ("I" :> "i") @@ ("J" :> "j") @@
    ("K" :> "k") @@ ("L" :> "l") @@ ("M" :> "m") @@ ("N" :> "n") @@ ("O" :> "o") @@
    ("P" :> "p") @@ ("Q" :> "q") @@ ("R" :> "r") @@ ("S" :> "s") @@ ("T" :> "t") @@
    ("U" :> "u") @@ ("V" :> "v") @@ ("W" :> "w") @@ ("X" :> "x") @@ ("Y" :> "y") @@
    ("Z" :> "z")

\* unicode.ToLower on one character.
LowerChar(c) == IF c \in DOMAIN LowerTable THEN LowerTable[c] ELSE c

\* strings.ToLower
RECURSIVE ToLower(_)
ToLower(s) ==
    IF s = <<>> THEN <<>> ELSE <<LowerChar(Head(s))>> \o ToLower(Tail(s))

\* strings.Contains
Contains(s, sub) ==
    \E i \in 0..(Len(s) - Len(sub)) : SubSeq(s, i + 1, i + Len(sub)) = sub

\* The characters strings.TrimSpace removes.
SpaceChars == {" ", "\t", "\n", "\r", "\f"}

RECURSIVE TrimLeft(_)
TrimLeft(s) ==
    IF s # <<>> /\ s[1] \in SpaceChars THEN TrimLeft(Tail(s)) ELSE s

RECURSIVE TrimRight(_)
TrimRight(s) ==
    IF s # <<>> /\ s[Len(s)] \in SpaceChars
    THEN TrimRight(SubSeq(s, 1, Len(s) - 1))
    ELSE s

\* strings.TrimSpace
TrimSpace(s) == TrimRight(TrimLeft(s))

\* filepath.Ext: the suffix beginning at the final dot of the last path element.
RECURSIVE ExtFrom(_, _)
ExtFrom(path, i) ==
    IF i < 1 \/ path[i] = "/" THEN <<>>
    ELSE IF path[i] = "." THEN SubSeq(path, i, Len(path))
    ELSE ExtFrom(path, i - 1)

Ext(path) == ExtFrom(path, Len(path))

\* All orders in which a Go map with key set S can be ranged over.
RECURSIVE Perms(_)
Perms(S) ==
    IF S = {} THEN {<<>>}
    ELSE UNION {{<<x>> \o p : p \in Perms(S \ {x})} : x \in S}

\* The sequences x \o y with x in A and y in B.
ConcatSets(A, B) == {x \o y : x \in A, y \in B}

(***************************************************************************)
(* internal/finding                                                        *)
(***************************************************************************)
Info == "INFO"

Warning == "WARN"

Error == "ERROR"

Severity == {Info, Warning, Error}

\* A message is its format string with the formatted argument.
Msg(fmt, arg) == <<fmt, arg>>

Finding(p, sev, msg) == [File |-> p, Severity |-> sev, Message |-> msg]

(***************************************************************************)
(* The directory walk (filepath.Walk): the entries in the order the walk   *)
(* reports them.  An entry is a directory, a non-directory, or a           *)
(* traversal failure (the callback is called with err # nil).              *)
(***************************************************************************)
Digits == <<"0", "1", "2", "3", "4", "5", "6", "7", "8", "9">>

\* The path of the i-th entry of the walk: distinct entries, distinct paths.
PathOf(i, e) == <<"r", "/", "f">> \o <<Digits[i + 1]>> \o e.ext

\* content: what the dialect's parser, reader and linter deliver for the path.
Entry(isDir, walkErr, ext, content) ==
    [isDir |-> isDir, walkErr |-> walkErr, ext |-> ext, content |-> content]

(***************************************************************************)
(* internal/terraform                                                      *)
(***************************************************************************)
\* An evaluated attribute expression (Expr.Value(nil)): a literal string, a
\* number, an object with the given keys, null, or an expression that cannot
\* be resolved statically (diag.HasErrors()).
StrVal(s) == [t |-> "string", s |-> s, keys |-> {}]

NumVal == [t |-> "number", s |-> <<>>, keys |-> {}]

ObjVal(keys) == [t |-> "object", s |-> <<>>, keys |-> keys]

NullVal == [t |-> "null", s |-> <<>>, keys |-> {}]

Unresolved == [t |-> "unresolved", s |-> <<>>, keys |-> {}]

TFSecretKeywords == <<<<"p", "a", "s", "s", "w", "o", "r", "d">>, <<"s", "e", "c", "r", "e", "t">>, <<"t", "o", "k", "e", "n">>, <<"k", "e", "y">>, <<"p", "w", "d">>>>

requiredTags == <<<<"E", "n", "v", "i", "r", "o", "n", "m", "e", "n", "t">>, <<"O", "w", "n", "e", "r">>, <<"P", "r", "o", "j", "e", "c", "t">>>>

deprecatedResources ==
    {<<"a", "w", "s", "_", "d", "b", "_", "i", "n", "s", "t", "a", "n", "c", "e">>, <<"a", "w", "s", "_", "e", "l", "b">>, <<"a", "w", "s", "_", "e", "l", "a", "s", "t", "i", "c", "s", "e", "a", "r", "c", "h", "_", "d", "o", "m", "a", "i", "n">>,
     <<"a", "w", "s", "_", "i", "a", "m", "_", "p", "o", "l", "i", "c", "y", "_", "a", "t", "t", "a", "c", "h", "m", "e", "n", "t">>, <<"a", "w", "s", "_", "l", "a", "u", "n", "c", "h", "_", "c", "o", "n", "f", "i", "g", "u", "r", "a", "t", "i", "o", "n">>,
     <<"a", "w", "s", "_", "a", "c", "m", "_", "c", "e", "r", "t", "i", "f", "i", "c", "a", "t", "e", "_", "v", "a", "l", "i", "d", "a", "t", "i", "o", "n">>, <<"a", "w", "s", "_", "c", "l", "o", "u", "d", "w", "a", "t", "c", "h", "_", "e", "v", "e", "n", "t", "_", "r", "u", "l", "e">>,
     <<"a", "w", "s", "_", "r", "o", "u", "t", "e", "5", "3", "_", "r", "e", "c", "o", "r", "d">>, <<"a", "w", "s", "_", "s", "n", "s", "_", "t", "o", "p", "i", "c", "_", "s", "u", "b", "s", "c", "r", "i", "p", "t", "i", "o", "n">>,
     <<"a", "w", "s", "_", "s", "p", "o", "t", "_", "i", "n", "s", "t", "a", "n", "c", "e", "_", "r", "e", "q", "u", "e", "s", "t">>, <<"a", "w", "s", "_", "e", "l", "a", "s", "t", "i", "c", "_", "b", "e", "a", "n", "s", "t", "a", "l", "k", "_", "e", "n", "v", "i", "r", "o", "n", "m", "e", "n", "t">>,
     <<"a", "w", "s", "_", "i", "a", "m", "_", "g", "r", "o", "u", "p", "_", "p", "o", "l", "i", "c", "y", "_", "a", "t", "t", "a", "c", "h", "m", "e", "n", "t">>}

MsgDeprecatedType == "Resource type '%s' is deprecated: %s"

MsgPublicRead == "S3 bucket ACL is set to public-read (publicly readable)"

MsgMissingTag == "Resource missing required tag '%s'"

MsgNoTags == "Resource missing 'tags' attribute entirely"

MsgAttrSecret == "Resource attribute '%s' may contain hardcoded secret"

MsgVarSecret == "Variable '%s' has a hardcoded default secret"

MsgParseHCL == "Failed to parse HCL file: %s"

MsgParseBlocks == "Failed to parse blocks: %s"

\* A block of content.Blocks: its type, its labels, the attributes
\* JustAttributes returns and whether JustAttributes reported errors (the
\* body holds a nested block).
Block(type, labels, attrs, attrDiag) ==
    [Type |-> type, Labels |-> labels, attrs |-> attrs, attrDiag |-> attrDiag]

\* Deprecated resource type.
TFDeprecatedCheck(p, b) ==
    IF b.Labels[1] \in deprecatedResources
    THEN <<Finding(p, Warning, Msg(MsgDeprecatedType, b.Labels[1]))>>
    ELSE <<>>

\* Public-read S3 bucket ACL.  skip: the code leaves the block (continue).
TFAclCheck(p, b) ==
    IF b.Labels[1] = <<"a", "w", "s", "_", "s", "3", "_", "b", "u", "c", "k", "e", "t">> /\ <<"a", "c", "l">> \in DOMAIN b.attrs
    THEN LET val == b.attrs[<<"a", "c", "l">>]
         IN IF val.t = "unresolved" THEN [out |-> <<>>, skip |-> TRUE]
            ELSE IF val.t = "string" /\ val.s = <<"p", "u", "b", "l", "i", "c", "-", "r", "e", "a", "d">>
            THEN [out |-> <<Finding(p, Warning, Msg(MsgPublicRead, <<>>))>>,
                  skip |-> FALSE]
            ELSE [out |-> <<>>, skip |-> FALSE]
    ELSE [out |-> <<>>, skip |-> FALSE]

\* One Warning per required tag missing from tagsMap, in requiredTags' order.
RECURSIVE MissingTags(_, _, _)
MissingTags(p, keys, i) ==
    IF i > Len(requiredTags) THEN <<>>
    ELSE (IF requiredTags[i] \notin keys
          THEN <<Finding(p, Warning, Msg(MsgMissingTag, requiredTags[i]))>>
          ELSE <<>>) \o MissingTags(p, keys, i + 1)

\* Missing required tags on a resource.
TFTagsCheck(p, b) ==
    IF <<"t", "a", "g", "s">> \in DOMAIN b.attrs
    THEN LET val == b.attrs[<<"t", "a", "g", "s">>]
         IN IF val.t = "unresolved" \/ val.t # "object"
            THEN [out |-> <<>>, skip |-> TRUE]
            ELSE [out |-> MissingTags(p, val.keys, 1), skip |-> FALSE]
    ELSE [out |-> <<Finding(p, Warning, Msg(MsgNoTags, <<>>))>>, skip |-> FALSE]

\* The keyword loop over one attribute: the first keyword the lowered name
\* contains and whose value resolves to a non-null value decides.
RECURSIVE TFAttrSecret(_, _, _, _, _)
TFAttrSecret(p, attrName, lowerName, val, k) ==
    IF k > Len(TFSecretKeywords) THEN <<>>
    ELSE IF Contains(lowerName, TFSecretKeywords[k])
    THEN IF val.t = "unresolved" \/ val.t = "null"
         THEN TFAttrSecret(p, attrName, lowerName, val, k + 1)
         ELSE IF val.t = "string" /\ val.s # <<>>
         THEN <<Finding(p, Error, Msg(MsgAttrSecret, attrName))>>
         ELSE <<>>
    ELSE TFAttrSecret(p, attrName, lowerName, val, k + 1)

\* Hardcoded secrets in resource attributes, ranging over attrs in order ord.
RECURSIVE TFSecretsCheck(_, _, _)
TFSecretsCheck(p, b, ord) ==
    IF ord = <<>> THEN <<>>
    ELSE TFAttrSecret(p, Head(ord), ToLower(Head(ord)), b.attrs[Head(ord)], 1)
         \o TFSecretsCheck(p, b, Tail(ord))

\* case "resource"
TFResourceFindings(p, b, ord) ==
    IF Len(b.Labels) # 2 THEN <<>>
    ELSE LET dep == TFDeprecatedCheck(p, b)
             acl == TFAclCheck(p, b)
             tags == TFTagsCheck(p, b)
         IN IF b.attrDiag THEN dep
            ELSE IF acl.skip THEN dep \o acl.out
            ELSE IF tags.skip THEN dep \o acl.out \o tags.out
            ELSE dep \o acl.out \o tags.out \o TFSecretsCheck(p, b, ord)

\* The keyword loop of a variable block.
RECURSIVE TFVarSecret(_, _, _, _, _)
TFVarSecret(p, varName, lowerName, strVal, k) ==
    IF k > Len(TFSecretKeywords) THEN <<>>
    ELSE IF Contains(lowerName, TFSecretKeywords[k]) /\ strVal # <<>>
    THEN <<Finding(p, Error, Msg(MsgVarSecret, varName))>>
    ELSE TFVarSecret(p, varName, lowerName, strVal, k + 1)

\* case "variable"
TFVariableFindings(p, b) ==
    IF Len(b.Labels) # 1 THEN <<>>
    ELSE IF b.attrDiag THEN <<>>
    ELSE IF <<"d", "e", "f", "a", "u", "l", "t">> \in DOMAIN b.attrs
    THEN LET val == b.attrs[<<"d", "e", "f", "a", "u", "l", "t">>]
         IN IF val.t = "unresolved" \/ val.t = "null" THEN <<>>
            ELSE IF val.t = "string"
            THEN TFVarSecret(p, b.Labels[1], ToLower(b.Labels[1]), val.s, 1)
            ELSE <<>>
    ELSE <<>>

\* The finding lists one block can append: one per order of the attrs map.
TFBlockOutcomes(p, b) ==
    IF b.Type = "resource"
    THEN {TFResourceFindings(p, b, ord) : ord \in Perms(DOMAIN b.attrs)}
    ELSE {TFVariableFindings(p, b)}

\* for _, block := range content.Blocks
RECURSIVE TFBlocksOutcomes(_, _)
TFBlocksOutcomes(p, blocks) ==
    IF blocks = <<>> THEN {<<>>}
    ELSE ConcatSets(TFBlockOutcomes(p, Head(blocks)),
                    TFBlocksOutcomes(p, Tail(blocks)))

\* A .tf file as the parser delivers it: ParseHCLFile fails (parse = "hcl"),
\* PartialContent fails (parse = "blocks"), or the blocks are returned.
TFFile(parse, blocks) == [kind |-> "tf", parse |-> parse, blocks |-> blocks]

\* What the callback appends for one .tf file.
TFFileOutcomes(p, f) ==
    IF f.parse = "hcl"
    THEN {<<Finding(p, Error, Msg(MsgParseHCL, <<"d", "i", "a", "g">>))>>}
    ELSE IF f.parse = "blocks"
    THEN {<<Finding(p, Error, Msg(MsgParseBlocks, <<"d", "i", "a", "g">>))>>}
    ELSE TFBlocksOutcomes(p, f.blocks)

(***************************************************************************)
(* internal/ansible                                                        *)
(***************************************************************************)
\* A decoded YAML value of a task key: a bool, a string, null, or anything
\* else (a number, a list, a mapping).
BoolVal(b) == [t |-> "bool", b |-> b, s |-> <<>>]

YStr(s) == [t |-> "string", b |-> FALSE, s |-> s]

YNil == [t |-> "nil", b |-> FALSE, s |-> <<>>]

YOther == [t |-> "other", b |-> FALSE, s |-> <<>>]

secretKeywords == <<<<"p", "a", "s", "s", "w", "o", "r", "d">>, <<"s", "e", "c", "r", "e", "t">>, <<"t", "o", "k", "e", "n">>, <<"k", "e", "y">>, <<"p", "w", "d">>>>

deprecatedModules ==
    {<<"r", "a", "w">>, <<"c", "o", "m", "m", "a", "n", "d">>, <<"s", "h", "e", "l", "l">>, <<"e", "c", "2">>, <<"d", "o", "c", "k", "e", "r">>, <<"g", "i", "t">>,
     <<"s", "e", "r", "v", "i", "c", "e">>, <<"y", "u", "m">>, <<"a", "p", "t">>, <<"s", "e", "t", "u", "p">>, <<"i", "p", "t", "a", "b", "l", "e", "s">>, <<"f", "i", "r", "e", "w", "a", "l", "l", "d">>,
     <<"u", "s", "e", "r">>}

MsgReadFile == "Failed to read file: %v"

MsgYAML == "YAML parse error: %v"

MsgNoHosts == "Play missing required field 'hosts'"

MsgNoBecome == "Task missing 'become' field (no privilege escalation specified)"

MsgBecomeFalse == "'become' is false in task (possible privilege issue)"

MsgNoName == "Task missing required field 'name'"

MsgDeprecatedModule == "Use of deprecated module '%s': %s"

MsgTaskSecret == "Possible hardcoded secret in attribute '%s'"

MsgUnusedVar == "Variable '%s' defined but not used"

\* containsSecretKeyword
RECURSIVE containsSecretKeywordFrom(_, _)
containsSecretKeywordFrom(s, k) ==
    IF k > Len(secretKeywords) THEN FALSE
    ELSE IF Contains(s, secretKeywords[k]) THEN TRUE
    ELSE containsSecretKeywordFrom(s, k + 1)

containsSecretKeyword(s) == containsSecretKeywordFrom(ToLower(s), 1)

\* The index of the first occurrence of sep in s (strings.Index, 1-based), 0 if none.
Index(s, sep) ==
    IF Contains(s, sep)
    THEN CHOOSE i \in 1..(Len(s) - Len(sep) + 1) :
            /\ SubSeq(s, i, i + Len(sep) - 1) = sep
            /\ \A j \in 1..(i - 1) : SubSeq(s, j, j + Len(sep) - 1) # sep
    ELSE 0

\* strings.Split for a non-empty separator.
RECURSIVE Split(_, _)
Split(s, sep) ==
    IF Index(s, sep) = 0 THEN <<s>>
    ELSE <<SubSeq(s, 1, Index(s, sep) - 1)>>
         \o Split(SubSeq(s, Index(s, sep) + Len(sep), Len(s)), sep)

\* The names between the double braces of the parts after the first "{{".
RECURSIVE TemplateNames(_)
TemplateNames(parts) ==
    IF parts = <<>> THEN {}
    ELSE LET varName == TrimSpace(Split(Head(parts), <<"}", "}">>)[1])
         IN (IF Len(varName) > 0 THEN {varName} ELSE {})
            \cup TemplateNames(Tail(parts))

\* The variables a task value marks as used.
UsedInValue(val) ==
    IF val.t = "string" /\ Contains(val.s, <<"{", "{">>) /\ Contains(val.s, <<"}", "}">>)
    THEN TemplateNames(Tail(Split(val.s, <<"{", "{">>)))
    ELSE {}

UsedInTask(task) == UNION {UsedInValue(task[k]) : k \in DOMAIN task}

\* The check, were it to compare become with true (become != true).
BecomeCheckNotTrue(p, task) ==
    IF <<"b", "e", "c", "o", "m", "e">> \notin DOMAIN task
    THEN <<Finding(p, Warning, Msg(MsgNoBecome, <<>>))>>
    ELSE IF ~(task[<<"b", "e", "c", "o", "m", "e">>].t = "bool" /\ task[<<"b", "e", "c", "o", "m", "e">>].b)
    THEN <<Finding(p, Warning, Msg(MsgBecomeFalse, <<>>))>>
    ELSE <<>>

\* Missing or false 'become'.
BecomeCheck(p, task) ==
    IF <<"b", "e", "c", "o", "m", "e">> \notin DOMAIN task
    THEN <<Finding(p, Warning, Msg(MsgNoBecome, <<>>))>>
    ELSE IF task[<<"b", "e", "c", "o", "m", "e">>].t = "bool" /\ ~task[<<"b", "e", "c", "o", "m", "e">>].b
    THEN <<Finding(p, Warning, Msg(MsgBecomeFalse, <<>>))>>
    ELSE <<>>

\* Required task field 'name'.
NameCheck(p, task) ==
    IF <<"n", "a", "m", "e">> \notin DOMAIN task
    THEN <<Finding(p, Warning, Msg(MsgNoName, <<>>))>>
    ELSE <<>>

\* Deprecated module usage, ranging over the task's keys in order ord.
RECURSIVE DeprecatedModuleCheck(_, _)
DeprecatedModuleCheck(p, ord) ==
    IF ord = <<>> THEN <<>>
    ELSE (IF /\ Head(ord) \notin {<<"n", "a", "m", "e">>, <<"b", "e", "c", "o", "m", "e">>, <<"v", "a", "r", "s">>}
             /\ Head(ord) \in deprecatedModules
          THEN <<Finding(p, Warning, Msg(MsgDeprecatedModule, Head(ord)))>>
          ELSE <<>>) \o DeprecatedModuleCheck(p, Tail(ord))

\* The check, were the value compared with "" without strings.TrimSpace.
RECURSIVE TaskSecretCheckUntrimmed(_, _, _)
TaskSecretCheckUntrimmed(p, task, ord) ==
    IF ord = <<>> THEN <<>>
    ELSE (IF /\ containsSecretKeyword(ToLower(Head(ord)))
             /\ task[Head(ord)].t = "string"
             /\ task[Head(ord)].s # <<>>
          THEN <<Finding(p, Error, Msg(MsgTaskSecret, Head(ord)))>>
          ELSE <<>>) \o TaskSecretCheckUntrimmed(p, task, Tail(ord))

\* Hardcoded secrets in task attributes, ranging over the task in order ord.
RECURSIVE TaskSecretCheck(_, _, _)
TaskSecretCheck(p, task, ord) ==
    IF ord = <<>> THEN <<>>
    ELSE (IF /\ containsSecretKeyword(ToLower(Head(ord)))
             /\ task[Head(ord)].t = "string"
             /\ TrimSpace(task[Head(ord)].s) # <<>>
          THEN <<Finding(p, Error, Msg(MsgTaskSecret, Head(ord)))>>
          ELSE <<>>) \o TaskSecretCheck(p, task, Tail(ord))

\* The finding lists one task can append: the two range loops over the task
\* map each take some order.
TaskOutcomes(p, task) ==
    ConcatSets(
        ConcatSets({BecomeCheck(p, task) \o NameCheck(p, task)},
                   {DeprecatedModuleCheck(p, o1) : o1 \in Perms(DOMAIN task)}),
        {TaskSecretCheck(p, task, o2) : o2 \in Perms(DOMAIN task)})

RECURSIVE TasksOutcomes(_, _)
TasksOutcomes(p, tasks) ==
    IF tasks = <<>> THEN {<<>>}
    ELSE ConcatSets(TaskOutcomes(p, Head(tasks)), TasksOutcomes(p, Tail(tasks)))

Play(hostsNil, playVars, tasks) ==
    [hostsNil |-> hostsNil, Vars |-> playVars, Tasks |-> tasks]

\* Required field 'hosts'.
HostsCheck(p, play) ==
    IF play.hostsNil THEN <<Finding(p, Warning, Msg(MsgNoHosts, <<>>))>> ELSE <<>>

RECURSIVE PlaysOutcomes(_, _)
PlaysOutcomes(p, plays) ==
    IF plays = <<>> THEN {<<>>}
    ELSE ConcatSets(
            ConcatSets({HostsCheck(p, Head(plays))},
                       TasksOutcomes(p, Head(plays).Tasks)),
            PlaysOutcomes(p, Tail(plays)))

\* definedVars and usedVars once every play of the file is processed.
DefinedVars(plays) == UNION {plays[i].Vars : i \in 1..Len(plays)}

UsedVars(plays) ==
    UNION {UNION {UsedInTask(plays[i].Tasks[j]) : j \in 1..Len(plays[i].Tasks)} :
            i \in 1..Len(plays)}

\* Unused variables, ranging over definedVars in order ord.
RECURSIVE UnusedVarCheck(_, _, _)
UnusedVarCheck(p, ord, used) ==
    IF ord = <<>> THEN <<>>
    ELSE (IF Head(ord) \notin used
          THEN <<Finding(p, Warning, Msg(MsgUnusedVar, Head(ord)))>>
          ELSE <<>>) \o UnusedVarCheck(p, Tail(ord), used)

\* A playbook file: ReadFile fails (state = "unreadable"), yaml.Unmarshal
\* fails (state = "badyaml"), or the plays are decoded.
AnsibleFile(state, plays) == [kind |-> "yml", state |-> state, plays |-> plays]

\* What the callback appends for one .yml or .yaml file.
\* The callback, were usedVars declared outside it: the names used in the
\* playbooks scanned before count as used.
AnsibleFileOutcomesSharedUsed(p, f) ==
    IF f.state = "unreadable"
    THEN {<<Finding(p, Error, Msg(MsgReadFile, <<"e", "r", "r">>))>>}
    ELSE IF f.state = "badyaml"
    THEN {<<Finding(p, Error, Msg(MsgYAML, <<"e", "r", "r">>))>>}
    ELSE LET before == {k \in 1..Len(tree) :
                            /\ k < idx
                            /\ ~tree[k].isDir
                            /\ ~tree[k].walkErr
                            /\ tree[k].ext \in {<<".", "y", "m", "l">>, <<".", "y", "a", "m", "l">>}}
             shared == UNION {UsedVars(tree[k].content.plays) : k \in before}
         IN ConcatSets(PlaysOutcomes(p, f.plays),
                       {UnusedVarCheck(p, ord, UsedVars(f.plays) \cup shared) :
                           ord \in Perms(DefinedVars(f.plays))})

AnsibleFileOutcomes(p, f) ==
    IF f.state = "unreadable"
    THEN {<<Finding(p, Error, Msg(MsgReadFile, <<"e", "r", "r">>))>>}
    ELSE IF f.state = "badyaml"
    THEN {<<Finding(p, Error, Msg(MsgYAML, <<"e", "r", "r">>))>>}
    ELSE ConcatSets(PlaysOutcomes(p, f.plays),
                    {UnusedVarCheck(p, ord, UsedVars(f.plays)) :
                        ord \in Perms(DefinedVars(f.plays))})

(***************************************************************************)
(* internal/puppet                                                         *)
(***************************************************************************)
puppetDeprecatedResources ==
    <<<<"e", "x", "e", "c", "p", "i", "p", "e">>, <<"d", "a", "t", "a", "b", "a", "s", "e">>, <<"c", "o", "n", "c", "a", "t", ":", ":", "f", "r", "a", "g", "m", "e", "n", "t">>, <<"f", "i", "l", "e", "b", "u", "c", "k", "e", "t">>,
      <<"n", "a", "g", "i", "o", "s", "_", "s", "e", "r", "v", "i", "c", "e">>, <<"p", "a", "c", "k", "a", "g", "e">>, <<"r", "e", "s", "o", "u", "r", "c", "e", "s">>, <<"v", "c", "s", "r", "e", "p", "o">>,
      <<"a", "p", "a", "c", "h", "e", ":", ":", "v", "h", "o", "s", "t">>, <<"m", "y", "s", "q", "l", ":", ":", "d", "b">>, <<"s", "s", "h", "_", "a", "u", "t", "h", "o", "r", "i", "z", "e", "d", "_", "k", "e", "y">>>>

disallowedParams ==
    <<<<"f", "o", "r", "c", "e", "_", "d", "e", "s", "t", "r", "o", "y">>, <<"s", "k", "i", "p", "_", "f", "i", "n", "a", "l", "_", "s", "n", "a", "p", "s", "h", "o", "t">>, <<"p", "u", "b", "l", "i", "c", "_", "i", "p">>,
      <<"a", "l", "l", "o", "w", "_", "r", "e", "m", "o", "t", "e", "_", "a", "c", "c", "e", "s", "s">>, <<"p", "a", "s", "s", "w", "o", "r", "d">>, <<"s", "e", "c", "r", "e", "t", "_", "k", "e", "y">>, <<"a", "c", "c", "e", "s", "s", "_", "k", "e", "y">>,
      <<"e", "n", "a", "b", "l", "e", "_", "h", "t", "t", "p", "_", "a", "c", "c", "e", "s", "s">>, <<"i", "n", "s", "e", "c", "u", "r", "e", "_", "s", "s", "l">>, <<"a", "d", "m", "i", "n", "_", "p", "a", "s", "s", "w", "o", "r", "d">>>>

MsgLintError == "puppet-lint error: %v"

MsgLintLine == "%s"

MsgPuppetRead == "failed to read file: %v"

MsgPuppetDeprecated == "Deprecated resource type '%s' used"

MsgNoClass == "No class declaration found in manifest"

MsgPassword == "Possible hardcoded password detected"

MsgTrailing == "Trailing whitespace on line %d"

MsgDisallowed == "Disallowed parameter '%s' used"

\* The regexp class \s
IsSpace(c) == c \in {" ", "\t", "\n", "\r", "\f"}

\* The regexp class [\w:]
IsWordOrColon(c) ==
    \/ c = "_" \/ c = ":"
    \/ \E i \in 1..Len(LowerChars) : c = LowerChars[i] \/ c = UpperChars[i]
    \/ \E i \in 1..Len(Digits) : c = Digits[i]

AllSpace(s, from, to) == \A m \in from..to : IsSpace(s[m])

\* classDeclRegex: (?m)^\s*class\s+[\w:]+
classDeclRegexMatch(s) ==
    \E j \in 1..Len(s) :
        /\ j + 4 <= Len(s)
        /\ SubSeq(s, j, j + 4) = <<"c", "l", "a", "s", "s">>
        /\ \E i \in 1..j : (i = 1 \/ s[i - 1] = "\n") /\ AllSpace(s, i, j - 1)
        /\ \E k \in (j + 6)..Len(s) : AllSpace(s, j + 5, k - 1) /\ IsWordOrColon(s[k])

\* hardcodedSecretRegex: (?i)password\s*=>\s*["'].*["']
hardcodedSecretRegexMatch(s) ==
    \E a \in 1..Len(s) :
        /\ a + 7 <= Len(s)
        /\ ToLower(SubSeq(s, a, a + 7)) = <<"p", "a", "s", "s", "w", "o", "r", "d">>
        /\ \E b \in (a + 8)..Len(s) :
            /\ AllSpace(s, a + 8, b - 1)
            /\ b + 1 <= Len(s)
            /\ SubSeq(s, b, b + 1) = <<"=", ">">>
            /\ \E q \in (b + 2)..Len(s) :
                /\ AllSpace(s, b + 2, q - 1)
                /\ s[q] \in {"\"", "'"}
                /\ \E r \in (q + 1)..Len(s) :
                    /\ s[r] \in {"\"", "'"}
                    /\ \A m \in (q + 1)..(r - 1) : s[m] # "\n"

\* trailingWhitespaceRegex on one line: \s+$
trailingWhitespaceRegexMatch(line) == line # <<>> /\ IsSpace(line[Len(line)])

\* strconv.Itoa (%d) for the line numbers of the model's texts.
Itoa(n) ==
    IF n < 10 THEN <<Digits[n + 1]>>
    ELSE <<Digits[(n \div 10) + 1], Digits[(n % 10) + 1]>>

\* One line of the linter's standard output as bufio.Scanner delivers it;
\* tooLong: the line exceeds the scanner's token limit.
LintLine(text, tooLong) == [text |-> text, tooLong |-> tooLong]

ErrTooLong == <<"e", "r", "r", "o", "r", " ", "p", "a", "r", "s", "i", "n", "g", " ", "p", "u", "p", "p", "e", "t", "-", "l", "i", "n", "t", " ", "o", "u", "t", "p", "u", "t", ":", " ", "b", "u", "f", "i", "o", ".", "S", "c", "a", "n", "n", "e", "r", ":", " ", "t", "o", "k", "e", "n", " ", "t", "o", "o", " ", "l", "o", "n", "g">>

\* for scanner.Scan() { ... }: one Warning per line up to a line too long.
RECURSIVE ScanLintOutput(_, _)
ScanLintOutput(p, lines) ==
    IF lines = <<>> THEN [findings |-> <<>>, err |-> FALSE]
    ELSE IF Head(lines).tooLong THEN [findings |-> <<>>, err |-> TRUE]
    ELSE LET rest == ScanLintOutput(p, Tail(lines))
         IN [findings |->
                <<Finding(p, Warning, Msg(MsgLintLine, Head(lines).text))>>
                \o rest.findings,
             err |-> rest.err]

\* runPuppetLint, were it to return cmd.Run's error whatever the output.
runPuppetLintFailsOnExit(p, f) ==
    IF f.lintErr
    THEN [findings |-> <<>>, err |-> TRUE, text |-> TrimSpace(f.stderr)]
    ELSE LET sc == ScanLintOutput(p, f.stdout)
         IN [findings |-> sc.findings, err |-> sc.err,
             text |-> IF sc.err THEN ErrTooLong ELSE <<>>]

\* runPuppetLint: the findings, whether an error is returned, and its text.
runPuppetLint(p, f) ==
    IF f.lintErr /\ f.stdout = <<>>
    THEN [findings |-> <<>>, err |-> TRUE, text |-> TrimSpace(f.stderr)]
    ELSE LET sc == ScanLintOutput(p, f.stdout)
         IN [findings |-> sc.findings, err |-> sc.err,
             text |-> IF sc.err THEN ErrTooLong ELSE <<>>]

\* 1. Run puppet-lint
LintFindings(p, f) ==
    LET r == runPuppetLint(p, f)
    IN (IF r.err THEN <<Finding(p, Error, Msg(MsgLintError, r.text))>> ELSE <<>>)
       \o r.findings

\* 3. Deprecated resource checks
RECURSIVE PuppetDeprecatedCheck(_, _, _)
PuppetDeprecatedCheck(p, content, i) ==
    IF i > Len(puppetDeprecatedResources) THEN <<>>
    ELSE (IF Contains(content, puppetDeprecatedResources[i])
          THEN <<Finding(p, Warning,
                         Msg(MsgPuppetDeprecated, puppetDeprecatedResources[i]))>>
          ELSE <<>>) \o PuppetDeprecatedCheck(p, content, i + 1)

\* 4. Missing class declaration
ClassCheck(p, content) ==
    IF ~classDeclRegexMatch(content)
    THEN <<Finding(p, Warning, Msg(MsgNoClass, <<>>))>>
    ELSE <<>>

\* 5. Hardcoded secrets detection
\* The check, were it to report every match instead of the first.
RECURSIVE PasswordCheckEveryMatch(_, _)
PasswordCheckEveryMatch(p, content) ==
    IF content = <<>> THEN <<>>
    ELSE (IF /\ Len(content) >= 8
             /\ ToLower(SubSeq(content, 1, 8)) = <<"p", "a", "s", "s", "w", "o", "r", "d">>
             /\ hardcodedSecretRegexMatch(content)
          THEN <<Finding(p, Error, Msg(MsgPassword, <<>>))>>
          ELSE <<>>) \o PasswordCheckEveryMatch(p, Tail(content))

PasswordCheck(p, content) ==
    IF hardcodedSecretRegexMatch(content)
    THEN <<Finding(p, Error, Msg(MsgPassword, <<>>))>>
    ELSE <<>>

\* 6. Trailing whitespace
RECURSIVE TrailingCheck(_, _, _)
TrailingCheck(p, lines, i) ==
    IF i > Len(lines) THEN <<>>
    ELSE (IF trailingWhitespaceRegexMatch(lines[i])
          THEN <<Finding(p, Warning, Msg(MsgTrailing, Itoa(i)))>>
          ELSE <<>>) \o TrailingCheck(p, lines, i + 1)

\* 7. Disallowed parameters
RECURSIVE DisallowedCheck(_, _, _)
DisallowedCheck(p, content, i) ==
    IF i > Len(disallowedParams) THEN <<>>
    ELSE (IF Contains(content, disallowedParams[i])
          THEN <<Finding(p, Warning, Msg(MsgDisallowed, disallowedParams[i]))>>
          ELSE <<>>) \o DisallowedCheck(p, content, i + 1)

\* Steps 3 to 7 on the text of a file.
StaticFindings(p, content) ==
    PuppetDeprecatedCheck(p, content, 1) \o ClassCheck(p, content)
    \o PasswordCheck(p, content) \o TrailingCheck(p, Split(content, <<"\n">>), 1)
    \o DisallowedCheck(p, content, 1)

\* 2. Read file content for static checks
ReadAndCheck(p, f) ==
    IF f.readErr
    THEN <<Finding(p, Error, Msg(MsgPuppetRead, <<"e", "r", "r">>))>>
    ELSE StaticFindings(p, f.text)

\* A manifest with what the linter does on it: lintErr (cmd.Run fails), the
\* lines of its standard output, its standard error; and whether os.ReadFile
\* fails, and the file's text.
PuppetFile(lintErr, stdout, stderr, readErr, text) ==
    [kind |-> "pp", lintErr |-> lintErr, stdout |-> stdout, stderr |-> stderr,
     readErr |-> readErr, text |-> text]

\* The callback, were it to run the static checks before the linter.
PuppetFileOutcomesLintLast(p, f) == {ReadAndCheck(p, f) \o LintFindings(p, f)}

\* What the callback appends for one .pp file.
PuppetFileOutcomes(p, f) == {LintFindings(p, f) \o ReadAndCheck(p, f)}

(***************************************************************************)
(* The Walk callbacks of the three Scan functions.  ret: the callback      *)
(* returns a non-nil error (and Walk stops); outs: the finding lists the   *)
(* invocation can append.                                                  *)
(***************************************************************************)
\* The callback, were it to return a file's parse failure to Walk.
TerraformCallbackReturnsParseFailure(p, e) ==
    IF e.walkErr \/ e.isDir THEN [ret |-> e.walkErr, outs |-> {<<>>}]
    ELSE IF Ext(p) # <<".", "t", "f">> THEN [ret |-> FALSE, outs |-> {<<>>}]
    ELSE [ret |-> e.content.parse # "ok", outs |-> TFFileOutcomes(p, e.content)]

TerraformCallback(p, e) ==
    IF e.walkErr \/ e.isDir THEN [ret |-> e.walkErr, outs |-> {<<>>}]
    ELSE IF Ext(p) # <<".", "t", "f">> THEN [ret |-> FALSE, outs |-> {<<>>}]
    ELSE [ret |-> FALSE, outs |-> TFFileOutcomes(p, e.content)]

\* The callback, were it to return a file's read or parse failure to Walk.
AnsibleCallbackReturnsFileFailure(p, e) ==
    IF e.walkErr \/ e.isDir THEN [ret |-> e.walkErr, outs |-> {<<>>}]
    ELSE IF Ext(p) # <<".", "y", "m", "l">> /\ Ext(p) # <<".", "y", "a", "m", "l">>
    THEN [ret |-> FALSE, outs |-> {<<>>}]
    ELSE [ret |-> e.content.state # "ok",
          outs |-> AnsibleFileOutcomes(p, e.content)]

AnsibleCallback(p, e) ==
    IF e.walkErr \/ e.isDir THEN [ret |-> e.walkErr, outs |-> {<<>>}]
    ELSE IF Ext(p) # <<".", "y", "m", "l">> /\ Ext(p) # <<".", "y", "a", "m", "l">>
    THEN [ret |-> FALSE, outs |-> {<<>>}]
    ELSE [ret |-> FALSE, outs |-> AnsibleFileOutcomes(p, e.content)]

\* The callback, were it to leave out the info.IsDir() test.
PuppetCallbackNoDirTest(p, e) ==
    IF e.walkErr THEN [ret |-> TRUE, outs |-> {<<>>}]
    ELSE IF Ext(p) # <<".", "p", "p">> THEN [ret |-> FALSE, outs |-> {<<>>}]
    ELSE [ret |-> FALSE, outs |-> PuppetFileOutcomes(p, e.content)]

PuppetCallback(p, e) ==
    IF e.walkErr \/ e.isDir THEN [ret |-> e.walkErr, outs |-> {<<>>}]
    ELSE IF Ext(p) # <<".", "p", "p">> THEN [ret |-> FALSE, outs |-> {<<>>}]
    ELSE [ret |-> FALSE, outs |-> PuppetFileOutcomes(p, e.content)]

(***************************************************************************)
(* The inputs of the model: the blocks, playbooks and manifests the files  *)
(* of a scanned tree hold.                                                 *)
(***************************************************************************)
S3 == <<"a", "w", "s", "_", "s", "3", "_", "b", "u", "c", "k", "e", "t">>

Instance == <<"a", "w", "s", "_", "i", "n", "s", "t", "a", "n", "c", "e">>

AllTags == {<<"E", "n", "v", "i", "r", "o", "n", "m", "e", "n", "t">>, <<"O", "w", "n", "e", "r">>, <<"P", "r", "o", "j", "e", "c", "t">>}

\* tests/sample-terraform-files/failure1.tf
BucketPublic ==
    Block("resource", <<S3, <<"l", "o", "g", "s", "_", "b", "u", "c", "k", "e", "t">>>>,
          (<<"b", "u", "c", "k", "e", "t">> :> StrVal(<<"l", "o", "g", "s", "-", "b", "u", "c", "k", "e", "t">>))
          @@ (<<"a", "c", "l">> :> StrVal(<<"p", "u", "b", "l", "i", "c", "-", "r", "e", "a", "d">>))
          @@ (<<"t", "a", "g", "s">> :> ObjVal({<<"E", "n", "v", "i", "r", "o", "n", "m", "e", "n", "t">>})), FALSE)

\* tests/sample-terraform-files/success1.tf
BucketPrivate ==
    Block("resource", <<S3, <<"m", "y", "_", "b", "u", "c", "k", "e", "t">>>>,
          (<<"b", "u", "c", "k", "e", "t">> :> StrVal(<<"m", "y", "-", "p", "r", "i", "v", "a", "t", "e", "-", "b", "u", "c", "k", "e", "t">>))
          @@ (<<"a", "c", "l">> :> StrVal(<<"p", "r", "i", "v", "a", "t", "e">>))
          @@ (<<"t", "a", "g", "s">> :> ObjVal({<<"E", "n", "v", "i", "r", "o", "n", "m", "e", "n", "t">>})), FALSE)

VarCount ==
    Block("variable", <<<<"i", "n", "s", "t", "a", "n", "c", "e", "_", "c", "o", "u", "n", "t">>>>,
          (<<"t", "y", "p", "e">> :> Unresolved) @@ (<<"d", "e", "f", "a", "u", "l", "t">> :> NumVal), FALSE)

\* A public bucket with a nested block (versioning { ... }).
BucketPublicNested ==
    Block("resource", <<S3, <<"b">>>>, (<<"a", "c", "l">> :> StrVal(<<"p", "u", "b", "l", "i", "c", "-", "r", "e", "a", "d">>)), TRUE)

\* acl = var.acl
BucketAclVar ==
    Block("resource", <<S3, <<"b">>>>,
          (<<"a", "c", "l">> :> Unresolved) @@ (<<"p", "a", "s", "s", "w", "o", "r", "d">> :> StrVal(<<"h", "u", "n", "t", "e", "r", "2">>)), FALSE)

\* tags = var.tags
InstanceTagsVar ==
    Block("resource", <<Instance, <<"w", "e", "b">>>>,
          (<<"t", "a", "g", "s">> :> Unresolved) @@ (<<"p", "a", "s", "s", "w", "o", "r", "d">> :> StrVal(<<"h", "u", "n", "t", "e", "r", "2">>)), FALSE)

\* tags = "none", on a deprecated type
ElbTagsString ==
    Block("resource", <<<<"a", "w", "s", "_", "e", "l", "b">>, <<"l", "b">>>>, (<<"t", "a", "g", "s">> :> StrVal(<<"n", "o", "n", "e">>)), FALSE)

InstanceTwoSecrets ==
    Block("resource", <<Instance, <<"w", "e", "b">>>>,
          (<<"t", "a", "g", "s">> :> ObjVal(AllTags))
          @@ (<<"p", "a", "s", "s", "w", "o", "r", "d">> :> StrVal(<<"p">>))
          @@ (<<"A", "P", "I", "_", "T", "o", "k", "e", "n">> :> StrVal(<<"t">>)), FALSE)

DbNoSecret ==
    Block("resource", <<<<"a", "w", "s", "_", "d", "b", "_", "i", "n", "s", "t", "a", "n", "c", "e">>, <<"d", "b">>>>,
          (<<"s", "e", "c", "r", "e", "t", "_", "k", "e", "y">> :> StrVal(<<>>))
          @@ (<<"p", "w", "d">> :> Unresolved)
          @@ (<<"t", "o", "k", "e", "n">> :> NullVal)
          @@ (<<"k", "e", "y", "s">> :> NumVal), FALSE)

\* acl = "public-read" on a resource that is no bucket.
InstanceAcl ==
    Block("resource", <<Instance, <<"w", "e", "b">>>>,
          (<<"a", "c", "l">> :> StrVal(<<"p", "u", "b", "l", "i", "c", "-", "r", "e", "a", "d">>))
          @@ (<<"t", "a", "g", "s">> :> ObjVal({<<"O", "w", "n", "e", "r">>, <<"P", "r", "o", "j", "e", "c", "t">>})), FALSE)

ResourceOneLabel ==
    Block("resource", <<S3>>, (<<"a", "c", "l">> :> StrVal(<<"p", "u", "b", "l", "i", "c", "-", "r", "e", "a", "d">>)), FALSE)

VarPassword ==
    Block("variable", <<<<"D", "B", "_", "P", "a", "s", "s", "w", "o", "r", "d">>>>, (<<"d", "e", "f", "a", "u", "l", "t">> :> StrVal(<<"h", "u", "n", "t", "e", "r", "2">>)), FALSE)

VarEmpty ==
    Block("variable", <<<<"a", "p", "i", "_", "t", "o", "k", "e", "n">>>>, (<<"d", "e", "f", "a", "u", "l", "t">> :> StrVal(<<>>)), FALSE)

VarUnresolved ==
    Block("variable", <<<<"s", "e", "c", "r", "e", "t">>>>, (<<"d", "e", "f", "a", "u", "l", "t">> :> Unresolved), FALSE)

\* A secret default beside a nested validation { ... } block.
VarNested ==
    Block("variable", <<<<"p", "w", "d">>>>, (<<"d", "e", "f", "a", "u", "l", "t">> :> StrVal(<<"x">>)), TRUE)

VarRegion ==
    Block("variable", <<<<"r", "e", "g", "i", "o", "n">>>>, (<<"d", "e", "f", "a", "u", "l", "t">> :> StrVal(<<"u", "s">>)), FALSE)

VarTwoLabels ==
    Block("variable", <<<<"k", "e", "y">>, <<"x">>>>, (<<"d", "e", "f", "a", "u", "l", "t">> :> StrVal(<<"x">>)), FALSE)

TFBlocks ==
    {BucketPublic, BucketPublicNested, BucketAclVar, InstanceTagsVar,
     ElbTagsString, InstanceTwoSecrets, DbNoSecret, InstanceAcl,
     ResourceOneLabel, VarPassword, VarEmpty, VarUnresolved, VarNested,
     VarRegion, VarTwoLabels}

TFFiles ==
    {TFFile("hcl", <<>>), TFFile("blocks", <<>>), TFFile("ok", <<>>),
     TFFile("ok", <<BucketPrivate, VarCount>>),
     TFFile("ok", <<InstanceTwoSecrets, BucketPublic>>)}
    \cup {TFFile("ok", <<b>>) : b \in TFBlocks}

Named == <<"n", "a", "m", "e">> :> YStr(<<"t">>)

Become(v) == <<"b", "e", "c", "o", "m", "e">> :> v

OnePlay(tasks) == <<Play(FALSE, {}, tasks)>>

Playbooks ==
    {<<>>,
     OnePlay(<<Named @@ Become(BoolVal(TRUE)) @@ (<<"s", "h", "e", "l", "l">> :> YStr(<<"l", "s">>))>>),
     OnePlay(<<Named @@ Become(BoolVal(FALSE)), Named>>),
     OnePlay(<<Become(YStr(<<"y", "e", "s">>))
               @@ (<<"p", "a", "s", "s", "w", "o", "r", "d">> :> YStr(<<"h", "u", "n", "t", "e", "r", "2">>))
               @@ (<<"A", "P", "I", "_", "K", "E", "Y">> :> YStr(<<"a", "b", "c">>))>>),
     OnePlay(<<Named @@ Become(YNil)
               @@ (<<"s", "h", "e", "l", "l">> :> YStr(<<"l", "s">>)) @@ (<<"y", "u", "m">> :> YOther)>>),
     OnePlay(<<Named @@ Become(BoolVal(TRUE))
               @@ (<<"t", "o", "k", "e", "n">> :> YStr(<<" ", " ">>)) @@ (<<"s", "e", "c", "r", "e", "t">> :> YOther)>>),
     <<Play(TRUE, {<<"x">>, <<"y">>},
            <<Named @@ Become(BoolVal(TRUE)) @@ (<<"m", "s", "g">> :> YStr(<<"a", " ", "{", "{", " ", "x", " ", "}", "}">>))>>)>>,
     <<Play(FALSE, {<<"a">>}, <<>>), Play(FALSE, {<<"b">>}, <<Named>>)>>,
     OnePlay(<<Named @@ Become(BoolVal(TRUE))
               @@ (<<"a", "c", "c", "e", "s", "s", "_", "i", "d">> :> YStr(<<"A", "K", "I", "A">>))
               @@ (<<"m", "s", "g">> :> YStr(<<"{", "{", "y", "}", "}", " ", "{", "{", " ", "a", " ", "}", "}">>))>>)}

AnsibleFiles ==
    {AnsibleFile("unreadable", <<>>), AnsibleFile("badyaml", <<>>)}
    \cup {AnsibleFile("ok", pb) : pb \in Playbooks}

\* Lines of the linter's output.
W1 == LintLine(<<"W", "A", "R", "N", "I", "N", "G", ":", " ", "w", " ", "o", "n", " ", "l", "i", "n", "e", " ", "1">>, FALSE)

W2 == LintLine(<<>>, FALSE)

Long == LintLine(<<"x">>, TRUE)

TextClass == <<"c", "l", "a", "s", "s", " ", "a", " ", "{", "\n", "}">>

TextPassword == <<"P", "a", "s", "s", "w", "o", "r", "d", " ", "=", ">", " ", " ", "'", "s", "u", "p", "e", "r", "s", "e", "c", "r", "e", "t", "'", ",", " ", " ", "\n">>

TextSpaces == <<"a", " ", "\n", "b", "\n", "c", "\t">>

TextPackage == <<" ", " ", "c", "l", "a", "s", "s", " ", "b", ":", ":", "c", "{", "p", "a", "c", "k", "a", "g", "e", "{", "'", "x", "'", ":", "}", "}">>

TextAdmin == <<"c", "l", "a", "s", "s", "y", "\n", "a", "d", "m", "i", "n", "_", "p", "a", "s", "s", "w", "o", "r", "d", "=", ">", "\"", "x", "\n", "\"", " ", "'", "y", "'">>

\* A manifest with two password assignments and no class.
TextTwoPasswords == <<"p", "a", "s", "s", "w", "o", "r", "d", " ", "=", ">", " ", "'", "a", "'", "\n", " ", " ", "p", "a", "s", "s", "w", "o", "r", "d", " ", "=", ">", " ", "'", "b", "'">>

\* A manifest with CRLF line ends.
TextCRLF == <<"a", "\r", "\n", "b", " ", "\n", "c">>

PuppetFiles ==
    {PuppetFile(FALSE, <<>>, <<>>, FALSE, TextClass),
     PuppetFile(FALSE, <<W1, W1>>, <<>>, FALSE, TextPassword),
     PuppetFile(TRUE, <<>>, <<" ", "b", "o", "o", "m", "\n">>, FALSE, TextSpaces),
     PuppetFile(TRUE, <<W1, W2>>, <<"b", "o", "o", "m">>, FALSE, TextPackage),
     PuppetFile(FALSE, <<W1, Long, W2>>, <<>>, FALSE, <<>>),
     PuppetFile(TRUE, <<Long>>, <<>>, FALSE, TextAdmin),
     PuppetFile(TRUE, <<>>, <<>>, TRUE, <<>>),
     PuppetFile(FALSE, <<W1>>, <<>>, TRUE, <<>>),
     PuppetFile(FALSE, <<>>, <<>>, FALSE, TextPassword),
     PuppetFile(TRUE, <<W2>>, <<>>, FALSE, TextAdmin),
     PuppetFile(FALSE, <<>>, <<>>, FALSE, TextCRLF),
     PuppetFile(TRUE, <<>>, <<"b", "o", "o", "m">>, FALSE, TextTwoPasswords),
     PuppetFile(FALSE, <<W1>>, <<>>, FALSE, TextTwoPasswords)}

Dialects == {"terraform", "ansible", "puppet"}

\* The files of the dialect's extension, with the contents above.
DialectFiles(d) ==
    IF d = "terraform" THEN {Entry(FALSE, FALSE, <<".", "t", "f">>, f) : f \in TFFiles}
    ELSE IF d = "ansible"
    THEN {Entry(FALSE, FALSE, <<".", "y", "m", "l">>, f) : f \in AnsibleFiles}
         \cup {Entry(FALSE, FALSE, <<".", "y", "a", "m", "l">>,
                     AnsibleFile("ok", OnePlay(<<Named @@ Become(BoolVal(FALSE))>>)))}
    ELSE {Entry(FALSE, FALSE, <<".", "p", "p">>, f) : f \in PuppetFiles}

\* The extension of a directory named like a file of the dialect.
DialectExt(d) ==
    IF d = "terraform" THEN <<".", "t", "f">> ELSE IF d = "ansible" THEN <<".", "y", "m", "l">> ELSE <<".", "p", "p">>

\* What the dialect's reader delivers for a path that is no readable file.
Unreadable(d) ==
    IF d = "terraform" THEN TFFile("hcl", <<>>)
    ELSE IF d = "ansible" THEN AnsibleFile("unreadable", <<>>)
    ELSE PuppetFile(TRUE, <<>>, <<>>, TRUE, <<>>)

\* A file of another extension that holds text of the dialect.
OtherFile(d) ==
    IF d = "terraform" THEN TFFile("ok", <<BucketPublic>>)
    ELSE IF d = "ansible" THEN AnsibleFile("ok", OnePlay(<<Named>>))
    ELSE PuppetFile(FALSE, <<W1>>, <<>>, FALSE, TextPassword)

\* What the walk can report below the root: a file of the dialect, a file of
\* another extension, a directory, or a traversal failure.
Entries(d) ==
    DialectFiles(d)
    \cup {Entry(FALSE, FALSE, <<".", "t", "x", "t">>, OtherFile(d)),
          Entry(TRUE, FALSE, DialectExt(d), Unreadable(d)),
          Entry(FALSE, TRUE, <<>>, Unreadable(d))}

RootDir(d) == Entry(TRUE, FALSE, <<>>, Unreadable(d))

RootMissing(d) == Entry(FALSE, TRUE, <<>>, Unreadable(d))

RECURSIVE SeqsUpTo(_, _)
SeqsUpTo(S, n) ==
    IF n = 0 THEN {<<>>}
    ELSE {<<>>} \cup {<<x>> \o t : x \in S, t \in SeqsUpTo(S, n - 1)}

\* The walks of a tree: the root is missing, the root is a single file, or
\* the root is a directory followed by what the walk reports below it.
Trees(d) ==
    {<<RootMissing(d)>>}
    \cup {<<f>> : f \in DialectFiles(d)}
    \cup {<<RootDir(d)>> \o t : t \in SeqsUpTo(Entries(d), MaxEntries - 1)}

(***************************************************************************)
(* The state machine: Scan(path) of one dialect on one tree, run twice.    *)
(***************************************************************************)
Init ==
    /\ dialect \in Dialects
    /\ tree \in Trees(dialect)
    /\ idx = 1
    /\ findings = <<>>
    /\ err = FALSE
    /\ pc = "walking"
    /\ run = 1
    /\ prev = <<>>
    /\ exit = "running"
    /\ output = <<>>

\* filepath.Walk after one invocation of the callback with result r: a
\* non-nil error ends the walk and is what Scan returns.
Walk(r) ==
    /\ \E out \in r.outs : findings' = findings \o out
    /\ IF r.ret
       THEN err' = TRUE /\ pc' = "done" /\ idx' = idx
       ELSE idx' = idx + 1 /\ UNCHANGED <<err, pc>>
    /\ UNCHANGED <<dialect, tree, run, prev, exit, output>>

\* One invocation of the callback of terraform.Scan.
TerraformScanStep ==
    /\ dialect = "terraform"
    /\ pc = "walking"
    /\ idx <= Len(tree)
    /\ Walk(TerraformCallback(PathOf(idx, tree[idx]), tree[idx]))

\* One invocation of the callback of ansible.Scan.
AnsibleScanStep ==
    /\ dialect = "ansible"
    /\ pc = "walking"
    /\ idx <= Len(tree)
    /\ Walk(AnsibleCallback(PathOf(idx, tree[idx]), tree[idx]))

\* One invocation of the callback of puppet.Scan.
PuppetScanStep ==
    /\ dialect = "puppet"
    /\ pc = "walking"
    /\ idx <= Len(tree)
    /\ Walk(PuppetCallback(PathOf(idx, tree[idx]), tree[idx]))

\* Walk has reported every entry: Scan returns findings and a nil error.
ScanReturn ==
    /\ pc = "walking"
    /\ idx > Len(tree)
    /\ pc' = "done"
    /\ UNCHANGED <<dialect, tree, idx, findings, err, run, prev, exit, output>>

\* Scan is called again on the unchanged tree.
Rescan ==
    /\ pc = "done"
    /\ run = 1
    /\ run' = 2
    /\ prev' = findings
    /\ findings' = <<>>
    /\ err' = FALSE
    /\ idx' = 1
    /\ pc' = "walking"
    /\ exit' = "running"
    /\ UNCHANGED <<dialect, tree, output>>

\* RunE of the scan subcommands after Scan has returned: the error of Scan is
\* returned as it is; otherwise the findings are printed in the format asked
\* for and nil is returned, whatever the findings are.  The command fails
\* when RunE returns a non-nil error.
RunE ==
    /\ pc = "done"
    /\ exit = "running"
    /\ exit' = IF err THEN "fail" ELSE "ok"
    /\ UNCHANGED <<dialect, tree, idx, findings, err, pc, run, prev, output>>

Next ==
    \/ TerraformScanStep
    \/ AnsibleScanStep
    \/ PuppetScanStep
    \/ ScanReturn
    \/ Rescan
    \/ RunE

Spec == Init /\ [][Next]_vars

(***************************************************************************)
(* report.ExportGitHubActions as a state machine of its own: the findings  *)
(* handed to it are the input, every iteration of its loop is one action,  *)
(* output is the contents of the strings.Builder.  Here a finding's        *)
(* Message is the text itself.                                             *)
(***************************************************************************)
\* strings.ReplaceAll for a non-empty old.
RECURSIVE ReplaceAll(_, _, _)
ReplaceAll(s, old, new) ==
    IF s = <<>> THEN <<>>
    ELSE IF Len(s) >= Len(old) /\ SubSeq(s, 1, Len(old)) = old
    THEN new \o ReplaceAll(SubSeq(s, Len(old) + 1, Len(s)), old, new)
    ELSE <<Head(s)>> \o ReplaceAll(Tail(s), old, new)

\* The table of escapeGHA, were "%" replaced last.
replacementsPercentLast ==
    <<[old |-> <<"\r">>, new |-> <<"%", "0", "D">>],
      [old |-> <<"\n">>, new |-> <<"%", "0", "A">>],
      [old |-> <<":">>, new |-> <<"%", "3", "A">>],
      [old |-> <<",">>, new |-> <<"%", "2", "C">>],
      [old |-> <<"%">>, new |-> <<"%", "2", "5">>]>>

replacements ==
    <<[old |-> <<"%">>, new |-> <<"%", "2", "5">>],
      [old |-> <<"\r">>, new |-> <<"%", "0", "D">>],
      [old |-> <<"\n">>, new |-> <<"%", "0", "A">>],
      [old |-> <<":">>, new |-> <<"%", "3", "A">>],
      [old |-> <<",">>, new |-> <<"%", "2", "C">>]>>

\* The loop of escapeGHA from replacement i on.
RECURSIVE escapeFrom(_, _)
escapeFrom(msg, i) ==
    IF i > Len(replacements) THEN msg
    ELSE escapeFrom(ReplaceAll(msg, replacements[i].old, replacements[i].new), i + 1)

escapeGHA(msg) == escapeFrom(msg, 1)

\* The switch on f.Severity.
Level(sev) ==
    IF sev = Error THEN <<"e", "r", "r", "o", "r">>
    ELSE IF sev = Warning THEN <<"w", "a", "r", "n", "i", "n", "g">>
    ELSE <<"n", "o", "t", "i", "c", "e">>

\* fmt.Sprintf("::%s file=%s::%s\n", level, f.File, escapeGHA(f.Message))
AnnotationLine(f) ==
    <<":", ":">> \o Level(f.Severity) \o <<" ", "f", "i", "l", "e", "=">> \o f.File \o <<":", ":">>
    \o escapeGHA(f.Message) \o <<"\n">>

\* Inputs: a severity that is none of the three constants, messages with
\* and without the characters escaped, and the lists of findings of them.
OtherSeverity == "DEBUG"

ReportMessages ==
    {<<>>, <<"%">>, <<":">>, <<",">>, <<"x", "\r", "\n", "y">>, <<"%", "3", "A">>, <<"%", "2", "5">>, <<":", "%">>, <<"a", ":", "b", ",", "c", "%">>}

ReportFindings ==
    {Finding(<<"r", "/", "a", ".", "t", "f">>, sev, m) :
        sev \in Severity \cup {OtherSeverity}, m \in ReportMessages}

InitReport ==
    /\ findings \in SeqsUpTo(ReportFindings, MaxFindings)
    /\ idx = 1
    /\ output = <<>>
    /\ pc = "exporting"
    /\ dialect = "report"
    /\ tree = <<>>
    /\ err = FALSE
    /\ run = 1
    /\ prev = <<>>
    /\ exit = "running"

\* One iteration of the loop over the findings.
ExportStep ==
    /\ pc = "exporting"
    /\ idx <= Len(findings)
    /\ output' = output \o AnnotationLine(findings[idx])
    /\ idx' = idx + 1
    /\ UNCHANGED <<dialect, tree, findings, err, pc, run, prev, exit>>

\* return b.String(), nil
ExportReturn ==
    /\ pc = "exporting"
    /\ idx > Len(findings)
    /\ pc' = "exported"
    /\ UNCHANGED <<dialect, tree, idx, findings, err, run, prev, exit, output>>

NextReport ==
    \/ ExportStep
    \/ ExportReturn

SpecReport == InitReport /\ [][NextReport]_vars

(***************************************************************************)
(* Vocabulary of the properties.                                           *)
(***************************************************************************)
\* The path of the i-th entry of the scanned tree.
FileOf(i) == PathOf(i, tree[i])

\* The extensions the dialect's Scan expects.
ExpectedExts ==
    IF dialect = "terraform" THEN {<<".", "t", "f">>}
    ELSE IF dialect = "ansible" THEN {<<".", "y", "m", "l">>, <<".", "y", "a", "m", "l">>}
    ELSE {<<".", "p", "p">>}

\* Entry i is a file of the dialect.
DialectFile(i) ==
    /\ ~tree[i].walkErr
    /\ ~tree[i].isDir
    /\ Ext(FileOf(i)) \in ExpectedExts

\* Entry i is a file of the dialect the callback has returned from.
Scanned(i) == i \in 1..Len(tree) /\ i < idx /\ DialectFile(i)

ScannedFiles == {i \in 1..Len(tree) : Scanned(i)}

\* The findings of the result whose File is p, in order.
RECURSIVE Select(_, _)
Select(fs, p) ==
    IF fs = <<>> THEN <<>>
    ELSE (IF Head(fs).File = p THEN <<Head(fs)>> ELSE <<>>) \o Select(Tail(fs), p)

FindingsOf(i) == Select(findings, FileOf(i))

\* How many findings of file i are f, and how many carry the format fmt.
Count(i, f) ==
    Cardinality({k \in 1..Len(findings) : findings[k] = f /\ f.File = FileOf(i)})

CountFmt(i, fmt) ==
    Cardinality({k \in 1..Len(findings) :
                    findings[k].File = FileOf(i) /\ findings[k].Message[1] = fmt})

HasError(i) ==
    \E k \in 1..Len(findings) :
        findings[k].File = FileOf(i) /\ findings[k].Severity = Error

\* The walk reports a traversal failure somewhere in the tree.
TraversalFails == \E i \in 1..Len(tree) : tree[i].walkErr

(***************************************************************************)
(* C1: two runs of the same Scan on an unchanged tree return the same      *)
(* finding list in the same order, whatever order the attribute, task and  *)
(* variable maps are ranged over.                                          *)
(***************************************************************************)
C1_ScanDeterministic == (run = 2 /\ pc = "done") => findings = prev

(***************************************************************************)
(* C2: Scan's error is non-nil exactly when the walk reported a traversal  *)
(* failure; a file that cannot be read or parsed, or whose linter fails,   *)
(* leaves the error nil and has an Error finding under its path.           *)
(***************************************************************************)
ErrorIffTraversalFails ==
    /\ pc # "done" => ~err
    /\ pc = "done" => (err <=> TraversalFails)

\* The file of entry i cannot be read or parsed.
ReadOrParseFails(i) ==
    IF dialect = "terraform" THEN tree[i].content.parse # "ok"
    ELSE IF dialect = "ansible" THEN tree[i].content.state # "ok"
    ELSE tree[i].content.readErr

TFChecked(i) == dialect = "terraform" /\ Scanned(i) /\ tree[i].content.parse = "ok"

TFCheckedFiles == {i \in 1..Len(tree) : TFChecked(i)}

BlocksOf(i) == tree[i].content.blocks

IsResource(b) == b.Type = "resource" /\ Len(b.Labels) = 2

IsVariable(b) == b.Type = "variable" /\ Len(b.Labels) = 1

HasSecretKeyword(name) ==
    \E k \in 1..Len(TFSecretKeywords) : Contains(ToLower(name), TFSecretKeywords[k])

IsLiteral(b, a) ==
    a \in DOMAIN b.attrs /\ b.attrs[a].t = "string" /\ b.attrs[a].s # <<>>

\* The attribute names of the resource blocks of file i.
AttrNamesOf(i) ==
    UNION {DOMAIN BlocksOf(i)[j].attrs : j \in 1..Len(BlocksOf(i))}

\* The blocks of file i that are resources holding a as a literal secret.
SecretAttrBlocks(i, a) ==
    {j \in 1..Len(BlocksOf(i)) :
        /\ IsResource(BlocksOf(i)[j])
        /\ HasSecretKeyword(a)
        /\ IsLiteral(BlocksOf(i)[j], a)}

\* The blocks of file i that are variables named n with a literal secret default.
SecretVarBlocks(i, n) ==
    {j \in 1..Len(BlocksOf(i)) :
        /\ IsVariable(BlocksOf(i)[j])
        /\ BlocksOf(i)[j].Labels[1] = n
        /\ HasSecretKeyword(n)
        /\ IsLiteral(BlocksOf(i)[j], <<"d", "e", "f", "a", "u", "l", "t">>)}

\* Every block of file i holds attributes only (no nested block).
AttributesOnly(i) == \A j \in 1..Len(BlocksOf(i)) : ~BlocksOf(i)[j].attrDiag

VarNamesOf(i) ==
    {BlocksOf(i)[j].Labels[1] : j \in {k \in 1..Len(BlocksOf(i)) : IsVariable(BlocksOf(i)[k])}}

(***************************************************************************)
(* C3: every resource attribute with a secret keyword in its key and a     *)
(* non-empty literal string value, and every variable with a secret        *)
(* keyword in its name and a non-empty literal string default, yields an   *)
(* Error, whatever else the block holds; an empty string or an             *)
(* unresolvable expression yields none.                                    *)
(***************************************************************************)
C3_LiteralSecretIsError ==
    \A i \in {j \in TFCheckedFiles : AttributesOnly(j)} :
        /\ \A a \in AttrNamesOf(i) :
            Count(i, Finding(FileOf(i), Error, Msg(MsgAttrSecret, a)))
                = Cardinality(SecretAttrBlocks(i, a))
        /\ \A n \in VarNamesOf(i) :
            Count(i, Finding(FileOf(i), Error, Msg(MsgVarSecret, n)))
                = Cardinality(SecretVarBlocks(i, n))

(***************************************************************************)
(* C4: every aws_s3_bucket resource whose acl is the literal "public-read" *)
(* contributes exactly one public-exposure Warning, whatever else the      *)
(* block holds; every other resource contributes none.                     *)
(***************************************************************************)
PublicBuckets(i) ==
    {j \in 1..Len(BlocksOf(i)) :
        /\ IsResource(BlocksOf(i)[j])
        /\ BlocksOf(i)[j].Labels[1] = <<"a", "w", "s", "_", "s", "3", "_", "b", "u", "c", "k", "e", "t">>
        /\ <<"a", "c", "l">> \in DOMAIN BlocksOf(i)[j].attrs
        /\ BlocksOf(i)[j].attrs[<<"a", "c", "l">>] = StrVal(<<"p", "u", "b", "l", "i", "c", "-", "r", "e", "a", "d">>)}

C4_PublicBucketWarnsOnce ==
    \A i \in TFCheckedFiles :
        Count(i, Finding(FileOf(i), Warning, Msg(MsgPublicRead, <<>>)))
            = Cardinality(PublicBuckets(i))

(***************************************************************************)
(* C5: per task, become true or not a boolean yields no privilege finding, *)
(* become false exactly one 'possible privilege issue' Warning, no become  *)
(* key exactly one 'no privilege escalation specified' Warning.            *)
(***************************************************************************)
AnsibleChecked(i) == dialect = "ansible" /\ Scanned(i) /\ tree[i].content.state = "ok"

AnsibleCheckedFiles == {i \in 1..Len(tree) : AnsibleChecked(i)}

\* The tasks of all plays of a playbook, in order.
RECURSIVE AllTasks(_)
AllTasks(plays) ==
    IF plays = <<>> THEN <<>> ELSE Head(plays).Tasks \o AllTasks(Tail(plays))

TasksOf(i) == AllTasks(tree[i].content.plays)

BecomeFalseTasks(i) ==
    {j \in 1..Len(TasksOf(i)) :
        /\ <<"b", "e", "c", "o", "m", "e">> \in DOMAIN TasksOf(i)[j]
        /\ TasksOf(i)[j][<<"b", "e", "c", "o", "m", "e">>] = BoolVal(FALSE)}

NoBecomeTasks(i) ==
    {j \in 1..Len(TasksOf(i)) : <<"b", "e", "c", "o", "m", "e">> \notin DOMAIN TasksOf(i)[j]}

C5_BecomeFindings ==
    \A i \in AnsibleCheckedFiles :
        /\ Count(i, Finding(FileOf(i), Warning, Msg(MsgBecomeFalse, <<>>)))
            = Cardinality(BecomeFalseTasks(i))
        /\ Count(i, Finding(FileOf(i), Warning, Msg(MsgNoBecome, <<>>)))
            = Cardinality(NoBecomeTasks(i))

\* A finished scan of a playbook whose only task has a become that is no
\* boolean, and of one with a become: false task and a task without become.
C5_Witness ==
    /\ pc = "done"
    /\ \E i \in AnsibleCheckedFiles :
        /\ Len(TasksOf(i)) = 1
        /\ <<"b", "e", "c", "o", "m", "e">> \in DOMAIN TasksOf(i)[1]
        /\ TasksOf(i)[1][<<"b", "e", "c", "o", "m", "e">>].t = "string"
        /\ CountFmt(i, MsgBecomeFalse) = 0
        /\ CountFmt(i, MsgNoBecome) = 0
    /\ \E i \in AnsibleCheckedFiles :
        /\ Cardinality(BecomeFalseTasks(i)) = 1
        /\ Cardinality(NoBecomeTasks(i)) = 1
        /\ CountFmt(i, MsgBecomeFalse) = 1
        /\ CountFmt(i, MsgNoBecome) = 1

(***************************************************************************)
(* C6: in every state of a scan, every finding's File is the path of a     *)
(* file (not a directory) the walk has visited, with the extension the     *)
(* dialect expects.                                                        *)
(***************************************************************************)
C6_FindingsNameScannedFiles ==
    \A k \in 1..Len(findings) :
        /\ Ext(findings[k].File) \in ExpectedExts
        /\ \E i \in 1..Len(tree) :
            /\ i < idx
            /\ ~tree[i].isDir
            /\ ~tree[i].walkErr
            /\ FileOf(i) = findings[k].File

\* A scan with findings that has passed, below the root, a directory named
\* like a file of the dialect.
C6_Witness ==
    /\ findings # <<>>
    /\ \E i \in 2..Len(tree) :
        i < idx /\ tree[i].isDir /\ Ext(FileOf(i)) \in ExpectedExts

(***************************************************************************)
(* C7: per resource block, no tags attribute yields exactly one 'missing   *)
(* tags attribute entirely' Warning, and a tags attribute yields exactly   *)
(* one Warning per required tag absent from it; the bucket of failure1.tf  *)
(* yields three Warnings (public-read, Owner, Project) and no Error.       *)
(***************************************************************************)
UntaggedResources(i) ==
    {j \in 1..Len(BlocksOf(i)) :
        /\ IsResource(BlocksOf(i)[j])
        /\ <<"t", "a", "g", "s">> \notin DOMAIN BlocksOf(i)[j].attrs}

ResourcesWithout(i, tag) ==
    {j \in 1..Len(BlocksOf(i)) :
        /\ IsResource(BlocksOf(i)[j])
        /\ <<"t", "a", "g", "s">> \in DOMAIN BlocksOf(i)[j].attrs
        /\ BlocksOf(i)[j].attrs[<<"t", "a", "g", "s">>].t = "object"
        /\ tag \notin BlocksOf(i)[j].attrs[<<"t", "a", "g", "s">>].keys}

C7_TaggingFindings ==
    \A i \in {j \in TFCheckedFiles : AttributesOnly(j)} :
        /\ Count(i, Finding(FileOf(i), Warning, Msg(MsgNoTags, <<>>)))
            = Cardinality(UntaggedResources(i))
        /\ \A t \in 1..Len(requiredTags) :
            Count(i, Finding(FileOf(i), Warning, Msg(MsgMissingTag, requiredTags[t])))
                = Cardinality(ResourcesWithout(i, requiredTags[t]))
        /\ BlocksOf(i) = <<BucketPublic>> =>
            FindingsOf(i) =
                <<Finding(FileOf(i), Warning, Msg(MsgPublicRead, <<>>)),
                  Finding(FileOf(i), Warning, Msg(MsgMissingTag, <<"O", "w", "n", "e", "r">>)),
                  Finding(FileOf(i), Warning, Msg(MsgMissingTag, <<"P", "r", "o", "j", "e", "c", "t">>))>>

(***************************************************************************)
(* C8: the result is the concatenation of per-file groups in the order the *)
(* walk visits the files; within a file the findings follow the order of   *)
(* the checks (per block or task where the checks are per block or task);  *)
(* findings are never deduplicated, sorted or dropped once appended.       *)
(***************************************************************************)
\* The position of each check in its dialect's order.
CheckRank ==
    (MsgParseHCL :> 0) @@ (MsgParseBlocks :> 0) @@ (MsgDeprecatedType :> 1) @@
    (MsgPublicRead :> 2) @@ (MsgNoTags :> 3) @@ (MsgMissingTag :> 3) @@
    (MsgAttrSecret :> 4) @@ (MsgVarSecret :> 5) @@
    (MsgReadFile :> 0) @@ (MsgYAML :> 0) @@ (MsgNoHosts :> 1) @@
    (MsgNoBecome :> 2) @@ (MsgBecomeFalse :> 2) @@ (MsgNoName :> 3) @@
    (MsgDeprecatedModule :> 4) @@ (MsgTaskSecret :> 5) @@ (MsgUnusedVar :> 6) @@
    (MsgLintError :> 0) @@ (MsgLintLine :> 1) @@ (MsgPuppetRead :> 2) @@
    (MsgPuppetDeprecated :> 3) @@ (MsgNoClass :> 4) @@ (MsgPassword :> 5) @@
    (MsgTrailing :> 6) @@ (MsgDisallowed :> 7)

RankOf(f) == CheckRank[f.Message[1]]

\* The entry whose path is p.
EntryOf(p) == CHOOSE i \in 1..Len(tree) : FileOf(i) = p

RECURSIVE SumTasks(_)
SumTasks(plays) ==
    IF plays = <<>> THEN 0
    ELSE (IF Len(Head(plays).Tasks) > 1 THEN Len(Head(plays).Tasks) ELSE 1)
         + SumTasks(Tail(plays))

\* The units (blocks; plays and their tasks; the manifest) of file i that
\* the checks run on one after the other.
Units(i) ==
    IF dialect = "terraform" /\ tree[i].content.parse = "ok"
    THEN Len(tree[i].content.blocks)
    ELSE IF dialect = "ansible" /\ tree[i].content.state = "ok"
    THEN SumTasks(tree[i].content.plays)
    ELSE 1

\* The places where a finding of file i is followed by one of an earlier check.
Descents(i) ==
    {k \in 1..(Len(findings) - 1) :
        /\ findings[k].File = FileOf(i)
        /\ findings[k + 1].File = FileOf(i)
        /\ RankOf(findings[k]) > RankOf(findings[k + 1])}

GroupedInWalkOrder ==
    \A k \in 1..(Len(findings) - 1) :
        EntryOf(findings[k].File) <= EntryOf(findings[k + 1].File)

ChecksInOrder ==
    \A i \in ScannedFiles :
        Descents(i) = {} \/ Cardinality(Descents(i)) < Units(i)

AppendOnly ==
    run' = run =>
        /\ Len(findings') >= Len(findings)
        /\ SubSeq(findings', 1, Len(findings)) = findings

OutcomesOf(i) ==
    IF dialect = "terraform" THEN TFFileOutcomes(FileOf(i), tree[i].content)
    ELSE IF dialect = "ansible" THEN AnsibleFileOutcomes(FileOf(i), tree[i].content)
    ELSE PuppetFileOutcomes(FileOf(i), tree[i].content)

\* The file of entry i fails with the linter: as claimed, cmd.Run returns an
\* error; as amended, it does so and leaves no standard output.
LinterFails(i) == dialect = "puppet" /\ tree[i].content.lintErr

LinterFailsSilently(i) == LinterFails(i) /\ tree[i].content.stdout = <<>>

\* The formats of the Errors the read and parse failures of file i are
\* recorded with.
FailureFormats(i) ==
    IF dialect = "terraform"
    THEN (IF tree[i].content.parse = "hcl" THEN {MsgParseHCL}
          ELSE IF tree[i].content.parse = "blocks" THEN {MsgParseBlocks} ELSE {})
    ELSE IF dialect = "ansible"
    THEN (IF tree[i].content.state = "unreadable" THEN {MsgReadFile}
          ELSE IF tree[i].content.state = "badyaml" THEN {MsgYAML} ELSE {})
    ELSE (IF tree[i].content.readErr THEN {MsgPuppetRead} ELSE {})

ErrorsWithFmt(i, fmt) ==
    {k \in 1..Len(findings) :
        /\ findings[k].File = FileOf(i)
        /\ findings[k].Severity = Error
        /\ findings[k].Message[1] = fmt}

WalkEndsAtEndOrTraversalFailure ==
    pc = "done" => (idx > Len(tree) \/ tree[idx].walkErr)

FullyChecked(i) ==
    /\ FindingsOf(i) \in OutcomesOf(i)
    /\ \A fmt \in FailureFormats(i) : Cardinality(ErrorsWithFmt(i, fmt)) = 1

PuppetScanned(i) == dialect = "puppet" /\ Scanned(i)

PuppetScannedFiles == {i \in 1..Len(tree) : PuppetScanned(i)}

\* The findings of file i that carry the format fmt / another format.
RECURSIVE WithFmt(_, _, _)
WithFmt(fs, fmts, keep) ==
    IF fs = <<>> THEN <<>>
    ELSE (IF (Head(fs).Message[1] \in fmts) = keep THEN <<Head(fs)>> ELSE <<>>)
         \o WithFmt(Tail(fs), fmts, keep)

\* The messages of the linter Warnings of file i, in order.
LintMessages(i) ==
    LET ws == WithFmt(FindingsOf(i), {MsgLintLine}, TRUE)
    IN [k \in 1..Len(ws) |-> ws[k].Message[2]]

\* The linter Warnings of file i are Warnings.
LintSeverities(i) ==
    \A k \in 1..Len(findings) :
        findings[k].File = FileOf(i) /\ findings[k].Message[1] = MsgLintLine
            => findings[k].Severity = Warning

\* The findings of file i that do not come from the linter.
StaticPart(i) == WithFmt(FindingsOf(i), {MsgLintLine, MsgLintError}, FALSE)

\* The lines of the output before the first line too long for the scanner.
RECURSIVE Scannable(_)
Scannable(lines) ==
    IF lines = <<>> \/ Head(lines).tooLong THEN <<>>
    ELSE <<Head(lines)>> \o Scannable(Tail(lines))

LinterFailureError(i) ==
    tree[i].content.lintErr /\ tree[i].content.stdout = <<>> =>
        /\ CountFmt(i, MsgLintError) = 1
        /\ Count(i, Finding(FileOf(i), Error,
                            Msg(MsgLintError, TrimSpace(tree[i].content.stderr)))) = 1
        /\ CountFmt(i, MsgLintLine) = 0

StaticChecksRun(i) ==
    StaticPart(i) =
        IF tree[i].content.readErr
        THEN <<Finding(FileOf(i), Error, Msg(MsgPuppetRead, <<"e", "r", "r">>))>>
        ELSE StaticFindings(FileOf(i), tree[i].content.text)

\* As claimed: every line of the output.
C10_EveryOutputLineIsWarning ==
    \A i \in PuppetScannedFiles :
        /\ tree[i].content.stdout # <<>> =>
            /\ LintMessages(i) =
                [k \in 1..Len(tree[i].content.stdout) |-> tree[i].content.stdout[k].text]
            /\ LintSeverities(i)
            /\ CountFmt(i, MsgLintError) = 0
        /\ LinterFailureError(i)
        /\ StaticChecksRun(i)

\* As amended: the lines the scanner delivers.
C10_ScannedOutputLineIsWarning ==
    \A i \in PuppetScannedFiles :
        /\ tree[i].content.stdout # <<>> =>
            /\ LintMessages(i) =
                [k \in 1..Len(Scannable(tree[i].content.stdout)) |->
                    tree[i].content.stdout[k].text]
            /\ LintSeverities(i)
            /\ CountFmt(i, MsgLintError) =
                IF Scannable(tree[i].content.stdout) = tree[i].content.stdout
                THEN 0 ELSE 1
        /\ LinterFailureError(i)
        /\ StaticChecksRun(i)

\* A finished scan of a readable manifest whose linter exited non-zero with
\* output, and of one whose linter failed without output.
C10_Witness ==
    /\ pc = "done"
    /\ \E i \in PuppetScannedFiles :
        /\ tree[i].content.lintErr
        /\ tree[i].content.stdout # <<>>
        /\ Scannable(tree[i].content.stdout) = tree[i].content.stdout
        /\ CountFmt(i, MsgLintLine) = Len(tree[i].content.stdout)
        /\ ~tree[i].content.readErr
        /\ StaticPart(i) # <<>>
    /\ \E i \in PuppetScannedFiles :
        /\ tree[i].content.lintErr
        /\ tree[i].content.stdout = <<>>
        /\ ~tree[i].content.readErr
        /\ CountFmt(i, MsgLintError) = 1
        /\ StaticPart(i) # <<>>

(***************************************************************************)
(* C11: for every line i (1-based) of a manifest's text split on newline,  *)
(* the result holds exactly one 'Trailing whitespace on line i' Warning if *)
(* the line ends in a space or tab and none otherwise; the lines "a ",     *)
(* "b", "c\t" give exactly two, for lines 1 and 3.                         *)
(***************************************************************************)
\* The manifests whose text the scan has read.
PuppetReadFiles == {i \in PuppetScannedFiles : ~tree[i].content.readErr}

LinesOf(i) == Split(tree[i].content.text, <<"\n">>)

EndsInSpaceOrTab(line) == line # <<>> /\ line[Len(line)] \in {" ", "\t"}

C11_TrailingWhitespacePerLine ==
    \A i \in PuppetReadFiles :
        /\ \A n \in 1..Len(LinesOf(i)) :
            Count(i, Finding(FileOf(i), Warning, Msg(MsgTrailing, Itoa(n))))
                = IF EndsInSpaceOrTab(LinesOf(i)[n]) THEN 1 ELSE 0
        /\ CountFmt(i, MsgTrailing)
            = Cardinality({n \in 1..Len(LinesOf(i)) : EndsInSpaceOrTab(LinesOf(i)[n])})
        /\ tree[i].content.text = TextSpaces =>
            WithFmt(FindingsOf(i), {MsgTrailing}, TRUE)
                = <<Finding(FileOf(i), Warning, Msg(MsgTrailing, <<"1">>)),
                    Finding(FileOf(i), Warning, Msg(MsgTrailing, <<"3">>))>>

(***************************************************************************)
(* C12: a readable manifest whose text holds a password assignment of the  *)
(* form password => '<value>' and no line starting (after whitespace)      *)
(* with 'class <name>' yields the hardcoded-password Error and the         *)
(* missing-class Warning, whatever the linter does; the Error is reported  *)
(* once per file however many assignments match.                           *)
(***************************************************************************)
Blank(s, from, to) == \A m \in from..to : s[m] \in {" ", "\t"}

\* The text holds password => '<value>' on one line.
HasPasswordAssignment(s) ==
    \E a \in 1..Len(s) :
        /\ a + 7 <= Len(s)
        /\ SubSeq(s, a, a + 7) = <<"p", "a", "s", "s", "w", "o", "r", "d">>
        /\ \E b \in (a + 8)..Len(s) :
            /\ Blank(s, a + 8, b - 1)
            /\ b + 1 <= Len(s)
            /\ SubSeq(s, b, b + 1) = <<"=", ">">>
            /\ \E q \in (b + 2)..Len(s) :
                /\ Blank(s, b + 2, q - 1)
                /\ s[q] = "'"
                /\ \E r \in (q + 1)..Len(s) :
                    /\ s[r] = "'"
                    /\ \A m \in (q + 1)..(r - 1) : s[m] \notin {"'", "\n"}

\* The text holds a line whose first word is class, followed by white space
\* and a name.
HasClassLine(s) ==
    \E j \in 1..Len(s) :
        /\ j + 5 <= Len(s)
        /\ SubSeq(s, j, j + 4) = <<"c", "l", "a", "s", "s">>
        /\ \A m \in 1..(j - 1) :
            (\A n \in m..(j - 1) : s[n] # "\n") => IsSpace(s[m])
        /\ IsSpace(s[j + 5])
        /\ \E k \in (j + 6)..Len(s) :
            AllSpace(s, j + 5, k - 1) /\ IsWordOrColon(s[k])

C12_PasswordAndMissingClass ==
    \A i \in PuppetReadFiles :
        /\ CountFmt(i, MsgPassword) <= 1
        /\ HasPasswordAssignment(tree[i].content.text) =>
            Count(i, Finding(FileOf(i), Error, Msg(MsgPassword, <<>>))) = 1
        /\ HasPasswordAssignment(tree[i].content.text)
           /\ ~HasClassLine(tree[i].content.text) =>
            Count(i, Finding(FileOf(i), Warning, Msg(MsgNoClass, <<>>))) = 1

\* A finished scan of two manifests with two password assignments and no
\* class, one whose linter failed without output and one whose linter
\* printed a line: each has the Error once and the Warning.
C12_Witness ==
    /\ pc = "done"
    /\ \E i, j \in PuppetReadFiles :
        /\ tree[i].content.text = TextTwoPasswords
        /\ tree[j].content.text = TextTwoPasswords
        /\ tree[i].content.lintErr /\ tree[i].content.stdout = <<>>
        /\ tree[j].content.stdout # <<>>
        /\ HasPasswordAssignment(tree[i].content.text)
        /\ ~HasClassLine(tree[i].content.text)
        /\ CountFmt(i, MsgPassword) = 1 /\ CountFmt(j, MsgPassword) = 1
        /\ CountFmt(i, MsgNoClass) = 1 /\ CountFmt(j, MsgNoClass) = 1

(***************************************************************************)
(* C13: after a successful Scan the command fails exactly when the highest *)
(* severity among the findings is at or above the --fail-on threshold      *)
(* (info, warn, error; default error) under Info < Warning < Error.        *)
(***************************************************************************)
SeverityRank == (Info :> 1) @@ (Warning :> 2) @@ (Error :> 3)

\* The threshold when no --fail-on is given.
DefaultFailOn == Error

\* The highest severity of the findings is at or above the threshold.
AtOrAbove(threshold) ==
    \E k \in 1..Len(findings) :
        SeverityRank[findings[k].Severity] >= SeverityRank[threshold]

C13_FailOnGate ==
    exit # "running" /\ ~err => (exit = "fail" <=> AtOrAbove(DefaultFailOn))

(***************************************************************************)
(* C14: ExportGitHubActions emits, for each finding in input order,        *)
(* exactly one line '::<level> file=<File>::<escaped message>' with level  *)
(* error, warning or (any other severity) notice; the escaped message is   *)
(* the message with %, CR, LF, ':' and ',' percent-escaped, holds no raw   *)
(* CR, LF, ':' or ',', escapes no '%' twice, and differs for different     *)
(* messages.                                                               *)
(***************************************************************************)
\* The lines written so far (the text after the last newline is not one).
OutLines ==
    LET parts == Split(output, <<"\n">>) IN SubSeq(parts, 1, Len(parts) - 1)

LineHead(f) ==
    <<":", ":">>
    \o (IF f.Severity = "ERROR" THEN <<"e", "r", "r", "o", "r">>
        ELSE IF f.Severity = "WARN" THEN <<"w", "a", "r", "n", "i", "n", "g">> ELSE <<"n", "o", "t", "i", "c", "e">>)
    \o <<" ", "f", "i", "l", "e", "=">> \o f.File \o <<":", ":">>

\* The escaped message of line k.
EscapedOf(k) ==
    SubSeq(OutLines[k], Len(LineHead(findings[k])) + 1, Len(OutLines[k]))

\* Each character on its own: the five characters by their codes.
PercentEncodeChar(c) ==
    IF c = "%" THEN <<"%", "2", "5">>
    ELSE IF c = "\r" THEN <<"%", "0", "D">>
    ELSE IF c = "\n" THEN <<"%", "0", "A">>
    ELSE IF c = ":" THEN <<"%", "3", "A">>
    ELSE IF c = "," THEN <<"%", "2", "C">>
    ELSE <<c>>

RECURSIVE PercentEncode(_)
PercentEncode(s) ==
    IF s = <<>> THEN <<>> ELSE PercentEncodeChar(Head(s)) \o PercentEncode(Tail(s))

\* Reading an escaped message back.
RECURSIVE PercentDecode(_)
PercentDecode(s) ==
    IF s = <<>> THEN <<>>
    ELSE IF Len(s) >= 3 /\ SubSeq(s, 1, 3) = <<"%", "2", "5">>
    THEN <<"%">> \o PercentDecode(SubSeq(s, 4, Len(s)))
    ELSE IF Len(s) >= 3 /\ SubSeq(s, 1, 3) = <<"%", "0", "D">>
    THEN <<"\r">> \o PercentDecode(SubSeq(s, 4, Len(s)))
    ELSE IF Len(s) >= 3 /\ SubSeq(s, 1, 3) = <<"%", "0", "A">>
    THEN <<"\n">> \o PercentDecode(SubSeq(s, 4, Len(s)))
    ELSE IF Len(s) >= 3 /\ SubSeq(s, 1, 3) = <<"%", "3", "A">>
    THEN <<":">> \o PercentDecode(SubSeq(s, 4, Len(s)))
    ELSE IF Len(s) >= 3 /\ SubSeq(s, 1, 3) = <<"%", "2", "C">>
    THEN <<",">> \o PercentDecode(SubSeq(s, 4, Len(s)))
    ELSE <<Head(s)>> \o PercentDecode(Tail(s))

\* The escaped messages of the lines written so far, if every line starts
\* as its finding says it must.
EscapedMessages(lines) ==
    [k \in 1..Len(lines) |->
        LET head == LineHead(findings[k])
        IN IF Len(lines[k]) >= Len(head) /\ SubSeq(lines[k], 1, Len(head)) = head
           THEN <<SubSeq(lines[k], Len(head) + 1, Len(lines[k]))>>
           ELSE <<>>]

C14_AnnotationLines ==
    pc \in {"exporting", "exported"} =>
        LET lines == OutLines
            esc == EscapedMessages(lines)
        IN /\ Len(lines) = idx - 1
           /\ output = <<>> \/ output[Len(output)] = "\n"
           /\ \A k \in 1..Len(lines) :
               /\ esc[k] # <<>>
               /\ esc[k][1] = PercentEncode(findings[k].Message)
               /\ \A m \in 1..Len(esc[k][1]) :
                   esc[k][1][m] \notin {"\r", "\n", ":", ","}
               /\ PercentDecode(esc[k][1]) = findings[k].Message
               /\ \A l \in 1..Len(lines) :
                   findings[k].Message # findings[l].Message => esc[k] # esc[l]

\* An export of an Error whose message holds ':', ',' and '%' and of a
\* finding of another severity whose message holds CR and LF.
C14_Witness ==
    /\ pc = "exported"
    /\ Len(findings) = 2
    /\ findings[1].Severity = Error
    /\ findings[1].Message = <<"a", ":", "b", ",", "c", "%">>
    /\ findings[2].Severity = OtherSeverity
    /\ findings[2].Message = <<"x", "\r", "\n", "y">>
    /\ Len(OutLines) = 2
    /\ EscapedOf(1) = <<"a", "%", "3", "A", "b", "%", "2", "C", "c", "%", "2", "5">>
    /\ EscapedOf(2) = <<"x", "%", "0", "D", "%", "0", "A", "y">>

(***************************************************************************)
(* C15: inside one resource block an acl or tags whose value cannot be     *)
(* resolved suppresses only the check of that attribute: the tagging       *)
(* check and the secret check of the other attributes still emit their     *)
(* findings, and the file has no parse Error.                              *)
(***************************************************************************)
\* The resource blocks of file i whose acl or tags cannot be resolved.
UnresolvedBlocks(i) ==
    {j \in 1..Len(BlocksOf(i)) :
        /\ IsResource(BlocksOf(i)[j])
        /\ \E a \in {<<"a", "c", "l">>, <<"t", "a", "g", "s">>} \cap DOMAIN BlocksOf(i)[j].attrs :
            BlocksOf(i)[j].attrs[a] = Unresolved}

C15_UnresolvedSkipsOnlyItsCheck ==
    \A i \in {j \in TFCheckedFiles : AttributesOnly(j)} :
        /\ CountFmt(i, MsgParseHCL) = 0
        /\ CountFmt(i, MsgParseBlocks) = 0
        /\ Count(i, Finding(FileOf(i), Warning, Msg(MsgNoTags, <<>>)))
            >= Cardinality(UntaggedResources(i) \cap UnresolvedBlocks(i))
        /\ \A t \in 1..Len(requiredTags) :
            Count(i, Finding(FileOf(i), Warning, Msg(MsgMissingTag, requiredTags[t])))
                >= Cardinality(ResourcesWithout(i, requiredTags[t]) \cap UnresolvedBlocks(i))
        /\ \A a \in AttrNamesOf(i) :
            Count(i, Finding(FileOf(i), Error, Msg(MsgAttrSecret, a)))
                >= Cardinality(SecretAttrBlocks(i, a) \cap UnresolvedBlocks(i))

(***************************************************************************)
(* C16: every task key that case-insensitively contains a secret keyword   *)
(* (password, secret, token, key, pwd, access) and whose value is a        *)
(* non-empty string gets exactly one Error; a key with a non-string or     *)
(* empty value, or without keyword, gets none.                             *)
(***************************************************************************)
\* The keys of the tasks of file i.
TaskKeysOf(i) == UNION {DOMAIN TasksOf(i)[j] : j \in 1..Len(TasksOf(i))}

HasKeyword(a, keywords) == \E k \in keywords : Contains(ToLower(a), k)

\* The tasks of file i that hold the key a with a string value.
StringTasks(i, a) ==
    {j \in 1..Len(TasksOf(i)) :
        a \in DOMAIN TasksOf(i)[j] /\ TasksOf(i)[j][a].t = "string"}

NonBlank(s) == \E m \in 1..Len(s) : ~IsSpace(s[m])

TaskSecretErrors(i, a) == Count(i, Finding(FileOf(i), Error, Msg(MsgTaskSecret, a)))

\* As claimed: access among the keywords, any non-empty string.
C16_SecretKeyNonEmptyIsError ==
    \A i \in AnsibleCheckedFiles :
        \A a \in TaskKeysOf(i) :
            TaskSecretErrors(i, a) =
                IF HasKeyword(a, {<<"p", "a", "s", "s", "w", "o", "r", "d">>, <<"s", "e", "c", "r", "e", "t">>, <<"t", "o", "k", "e", "n">>, <<"k", "e", "y">>,
                                  <<"p", "w", "d">>, <<"a", "c", "c", "e", "s", "s">>})
                THEN Cardinality({j \in StringTasks(i, a) : TasksOf(i)[j][a].s # <<>>})
                ELSE 0

\* As amended: access is no keyword, and the string is not blank.
C16_SecretKeyNonBlankIsError ==
    \A i \in AnsibleCheckedFiles :
        \A a \in TaskKeysOf(i) :
            TaskSecretErrors(i, a) =
                IF HasKeyword(a, {<<"p", "a", "s", "s", "w", "o", "r", "d">>, <<"s", "e", "c", "r", "e", "t">>, <<"t", "o", "k", "e", "n">>, <<"k", "e", "y">>, <<"p", "w", "d">>})
                THEN Cardinality({j \in StringTasks(i, a) : NonBlank(TasksOf(i)[j][a].s)})
                ELSE 0

\* A finished scan of a task with the keys password and API_KEY, each with
\* its Error, and of a task whose access_id has none.
C16_Witness ==
    /\ pc = "done"
    /\ \E i \in AnsibleCheckedFiles :
        /\ TaskSecretErrors(i, <<"p", "a", "s", "s", "w", "o", "r", "d">>) = 1
        /\ TaskSecretErrors(i, <<"A", "P", "I", "_", "K", "E", "Y">>) = 1
    /\ \E i \in AnsibleCheckedFiles :
        /\ <<"a", "c", "c", "e", "s", "s", "_", "i", "d">> \in TaskKeysOf(i)
        /\ CountFmt(i, MsgTaskSecret) = 0

(***************************************************************************)
(* C17: per playbook file, the names reported 'defined but not used' are   *)
(* the vars keys of all plays of the file minus the names that occur as a  *)
(* white-space-trimmed {{ name }} in a string-valued task attribute of     *)
(* the same file, one Warning each, after all play and task findings of    *)
(* the file; another file's names change nothing.                          *)
(***************************************************************************)
\* The vars keys of all plays of file i.
DefinedIn(i) ==
    UNION {tree[i].content.plays[k].Vars : k \in 1..Len(tree[i].content.plays)}

\* The name n between double braces, with or without blanks around it.
Templates(n) ==
    {<<"{", "{">> \o l \o n \o r \o <<"}", "}">> : l \in {<<>>, <<" ">>}, r \in {<<>>, <<" ">>}}

\* A string-valued attribute of a task of file i holds {{ n }}.
UsedIn(i, n) ==
    \E j \in 1..Len(TasksOf(i)) :
        \E a \in DOMAIN TasksOf(i)[j] :
            /\ TasksOf(i)[j][a].t = "string"
            /\ \E t \in Templates(n) : Contains(TasksOf(i)[j][a].s, t)

\* The names file i is reported for.
ReportedUnused(i) ==
    {findings[k].Message[2] :
        k \in {m \in 1..Len(findings) :
                /\ findings[m].File = FileOf(i)
                /\ findings[m].Message[1] = MsgUnusedVar}}

C17_UnusedVarsPerFile ==
    \A i \in AnsibleCheckedFiles :
        /\ ReportedUnused(i) = {n \in DefinedIn(i) : ~UsedIn(i, n)}
        /\ \A n \in ReportedUnused(i) :
            Count(i, Finding(FileOf(i), Warning, Msg(MsgUnusedVar, n))) = 1
        /\ CountFmt(i, MsgUnusedVar) = Cardinality(ReportedUnused(i))
        /\ LET fs == FindingsOf(i)
           IN \A k \in 1..Len(fs) : \A l \in (k + 1)..Len(fs) :
                fs[k].Message[1] = MsgUnusedVar => fs[l].Message[1] = MsgUnusedVar

\* A finished scan of a playbook that uses y and, after it, of a playbook
\* that defines x and y, uses x, and is reported for y after its play's
\* finding.
C17_Witness ==
    /\ pc = "done"
    /\ \E i, j \in AnsibleCheckedFiles :
        /\ j < i
        /\ UsedIn(j, <<"y">>)
        /\ DefinedIn(i) = {<<"x">>, <<"y">>}
        /\ UsedIn(i, <<"x">>)
        /\ ~UsedIn(i, <<"y">>)
        /\ ReportedUnused(i) = {<<"y">>}
        /\ Len(FindingsOf(i)) > 1

====
